---- MODULE Spec2Model ----
(***************************************************************************)
(* Retrieval-and-reranking pipeline of cerberus-chat.                      *)
(*                                                                         *)
(* Scores are fixed point, in hundredths: 76 stands for 0.76.  The index   *)
(* scores used are multiples of 10, for which score * 1.2 and the average  *)
(* of two scores are exact in hundredths.                                  *)
(***************************************************************************)
EXTENDS Integers, Sequences, FiniteSets, TLC

(***************************************************************************)
(* Bounds of the model.                                                    *)
(***************************************************************************)
\* keywordTopK / semanticTopK handed to the index (config defaults 10 / 20)
MaxKeywordTopK == 2
MaxSemanticTopK == 2

\* length of the candidate list handed to the reranker
MaxCandidates == 3
\* parameter topK of the rerank operations (config default 5)
MaxTopK == 4

\* number of words of a text, and of a window (chunkSize)
MaxWords == 5
MaxChunkSize == 3
\* number of messages of a ticket, and of words of a message
MaxMessages == 2
MaxMessageWords == 2

\* number of query lines of a chat session, and of reset lines
MaxLines == 2
MaxResets == 1
\* number of queries awaiting an external call at the same time
MaxInFlight == 2
\* ticket files found in the directory
MaxFiles == 11

(***************************************************************************)
(* Program constants.                                                      *)
(***************************************************************************)
\* semanticSearch(queryEmbedding, topK = 20, minScore = 0.5)
DefaultMinScore == 50

\* rerankChunks: return chunks.map(() => 0.5)
DefaultRerankScore == 50

\* config.chunking: CHUNK_SIZE, CHUNK_OVERLAP, MIN_CHUNK_SIZE defaults
DefaultChunkSize == 500
DefaultOverlap == 128
DefaultMinChunkSize == 50

\* rerankWithCombinedScoring: originalWeight = 0.3, rerankWeight = 0.7, in tenths
DefaultOriginalWeight == 3
DefaultRerankWeight == 7

\* processQuery: if (conversationHistory.length > 21)
HistoryLimit == 21
\* embedDirectory: const batchSize = 10
FileBatchSize == 10
\* embedDirectory: const embeddingBatchSize = 50
EmbeddingBatchSize == 50

PassageIds == {"p1", "p2", "p3"}
\* scores the lexical phase of the index reports (metaKeywordSearch)
LexScores == {50, 60, 100}
\* similarities the vector phase of the index reports (queryItems / query)
VecScores == {30, 50, 60, 70, 80}
\* config.retrieval.minSimilarityScore (MIN_SIMILARITY_SCORE, default 0.5)
MinSimilarityScores == {20, 50, 60}

\* metadata.ticketUid of the candidates
Tickets == {"t1", "t2", "t3"}
\* original (fused) scores of the candidates handed to the reranker
CandidateScores == {60, 80}
\* entries of the JSON array a scorer that keeps to its scale of 0 to 10
\* replies with
RawScores == {"3", "7"}
\* entries of the JSON array of a scorer that does not keep to the scale
AnyRatings == {"7", "12", "-2", "\"high\""}
\* what the scorer says of one chunk: a number, a JSON string, a bare word
ScorerReplies == {"3", "7", "\"high\"", "high"}
\* response.usage.total_tokens of a scoring call
UsageTokens == {9}
\* tokens the cost tracker holds when the reranker is called
TokenCounts == {4}
\* parameters originalWeight and rerankWeight, in tenths
WeightPairs == {<<DefaultOriginalWeight, DefaultRerankWeight>>, <<5, 5>>}
\* ids of the candidates, by position in the candidate list
CandidateId(i) == <<"p1", "p2", "p3", "p4", "p5", "p6", "p7", "p8">>[i]

\* the words texts are made of
Words == {"a", "bbb"}
\* values of config.chunking.minChunkSize, in characters
MinChunkSizes == {0, 3, 6}

VARIABLES
    pc,                  \* position of retrieveRelevantChunks
    minSimilarityScore,  \* config.retrieval.minSimilarityScore
    indexResults,        \* what the index answered to the vector query
    keywordResults,      \* hybridSearch: const keywordResults
    semanticResults,     \* hybridSearch: const semanticResults
    hybridResults,       \* value returned by hybridSearch
    filtered,            \* value returned by retrieveRelevantChunks
    failedCalls,         \* history: the external calls that failed
    calls                \* history: how often each external call was made

retrievalVars == <<pc, minSimilarityScore, indexResults, keywordResults,
                   semanticResults, hybridResults, filtered, failedCalls, calls>>

\* rerankWithOpenAI / rerankWithDiversity
VARIABLES
    rpc,            \* position of the rerank call
    op,             \* which rerank operation was called
    candidates,     \* parameter results: SearchResult[]
    topK,           \* parameter topK (config.retrieval.rerankTopK when absent)
    scorerFailed,   \* the relevance-scoring call threw
    rerankScores,   \* value returned by rerankChunks
    reranked,       \* value returned by rerankWithOpenAI
    diverse,        \* value returned by rerankWithDiversity
    weights,        \* parameters originalWeight, rerankWeight, in tenths
    combined,       \* value returned by rerankWithCombinedScoring
    tokenCount,     \* CostTracker.tokenCount
    scorerCalls     \* history: chat.completions.create calls made by rerankChunks

rerankVars == <<rpc, op, candidates, topK, scorerFailed, rerankScores,
                reranked, diverse, weights, combined, tokenCount, scorerCalls>>

\* chunkText
VARIABLES
    cpc,            \* position of the chunkText call
    words,          \* text.split(/\s+/).filter(w => w.length > 0)
    chunkSize,      \* parameter chunkSize
    overlap,        \* parameter overlap
    minChunkSize,   \* config.chunking.minChunkSize
    chunks,         \* const chunks: string[], the value chunkText returns
    loopStart,      \* let start: the left edge of the next window
    windows         \* history: the windows [start, end) the loop has cut

chunkVars == <<cpc, words, chunkSize, overlap, minChunkSize, chunks,
               loopStart, windows>>

\* chunkByMessages
VARIABLES
    mpc,            \* position of the chunkByMessages call
    messages,       \* parameter messages: the uid and the words of each content
    ticketUid,      \* ticketRecord.uid
    allChunks,      \* value returned by chunkByMessages
    previousChunks  \* history: what the call before this one returned

ingestVars == <<mpc, messages, ticketUid, allChunks, previousChunks>>

\* chatLoop / processQuery
VARIABLES
    history,        \* const conversationHistory: ChatMessage[]
    cost,           \* cost: CostTracker, its token count
    queries,        \* the handler of each 'line' event: position and locals
    resets,         \* history: number of reset lines handled
    pushed          \* history: the messages pushed since the last reset

chatVars == <<history, cost, queries, resets, pushed>>

\* rerankChunk per candidate beside rerankChunks
VARIABLES
    spc,            \* position of the comparison of the two scorers
    outcome,        \* what the scoring service does with each candidate
    chunkScores,    \* values returned by the rerankChunk calls made so far
    batchScores     \* value returned by rerankChunks, <<>> before the call

scoringVars == <<spc, outcome, chunkScores, batchScores>>

\* embedDirectory
VARIABLES
    epc,            \* position of embedDirectory
    fileCount,      \* ticketFiles.length
    fileBatchStart, \* i of the loop over batches of files
    fileInBatch,    \* index in batch of the file being processed
    chunksLength,   \* chunks.length of the file being processed
    embedStart,     \* j of the loop over batches of chunks
    upsertLog,      \* history: <<j, length>> of the upsertBatch calls that
                    \* returned for the file being processed
    processedFiles, \* let processedFiles
    totalChunks,    \* let totalChunks
    attempted       \* history: files whose processing began

embedVars == <<epc, fileCount, fileBatchStart, fileInBatch, chunksLength,
               embedStart, upsertLog, processedFiles, totalChunks, attempted>>

vars == <<retrievalVars, rerankVars, chunkVars, ingestVars, chatVars,
          scoringVars, embedVars>>

(***************************************************************************)
(* Helpers on sequences of SearchResult records [id, score].               *)
(***************************************************************************)
Ids(s) == {s[i].id : i \in DOMAIN s}

DistinctIds(s) == \A i, j \in DOMAIN s : i # j => s[i].id # s[j].id

Descending(s) == \A i, j \in DOMAIN s : i < j => s[i].score >= s[j].score

\* The answers an index can give: at most maxLen results, one per passage,
\* ranked by descending score (ties in whatever order the index has them).
RankedLists(scores, maxLen) ==
    { s \in UNION { [1..n -> [id : PassageIds, score : scores]] : n \in 0..maxLen } :
        DistinctIds(s) /\ Descending(s) }

IndexOf(s, id) == CHOOSE i \in DOMAIN s : s[i].id = id

\* mutant: results collected in an array instead of a Map keyed by id
MapSetAppend(m, r) == Append(m, r)

\* Map.prototype.set: an existing key keeps its insertion position
MapSet(m, r) ==
    IF r.id \in Ids(m)
    THEN [m EXCEPT ![IndexOf(m, r.id)] = r]
    ELSE Append(m, r)

\* mutant: a sort that is not stable (equal scores end up reversed)
RECURSIVE InsertByScoreUnstable(_, _)
InsertByScoreUnstable(sorted, r) ==
    IF sorted = <<>> THEN <<r>>
    ELSE IF Head(sorted).score > r.score
         THEN <<Head(sorted)>> \o InsertByScoreUnstable(Tail(sorted), r)
         ELSE <<r>> \o sorted

\* Array.prototype.sort((a, b) => b.score - a.score): stable, descending
RECURSIVE InsertByScore(_, _)
InsertByScore(sorted, r) ==
    IF sorted = <<>> THEN <<r>>
    ELSE IF Head(sorted).score >= r.score
         THEN <<Head(sorted)>> \o InsertByScore(Tail(sorted), r)
         ELSE <<r>> \o sorted

RECURSIVE SortByScore(_)
SortByScore(s) ==
    IF s = <<>> THEN <<>>
    ELSE InsertByScore(SortByScore(SubSeq(s, 1, Len(s) - 1)), s[Len(s)])

(***************************************************************************)
(* VectraStore / ChromaDB                                                  *)
(***************************************************************************)
\* mutant: keyword matches not boosted
BoostNone(score) == score

\* result.score * 1.2
Boost(score) == (score * 12) \div 10

\* mutant: scores of a passage found by both phases summed, not averaged
CombineSum(existing, score) == existing + score

\* (existing.score + result.score) / 2
Combine(existing, score) == (existing + score) \div 2

\* mutant: vector search without a score floor
semanticSearchNoFloor(results, minScore) == results

\* semanticSearch: results.filter(r => r.score >= minScore)
semanticSearch(results, minScore) ==
    SelectSeq(results, LAMBDA r : r.score >= minScore)

\* keywordResults.forEach: resultsMap.set(id, {...result, score: score * 1.2})
RECURSIVE AddKeywordResults(_, _)
AddKeywordResults(resultsMap, results) ==
    IF results = <<>> THEN resultsMap
    ELSE AddKeywordResults(
            MapSet(resultsMap, [Head(results) EXCEPT !.score = Boost(@)]),
            Tail(results))

\* semanticResults.forEach: combine with an existing entry, else insert
RECURSIVE AddSemanticResults(_, _)
AddSemanticResults(resultsMap, results) ==
    IF results = <<>> THEN resultsMap
    ELSE LET r == Head(results)
             merged == IF r.id \in Ids(resultsMap)
                       THEN [r EXCEPT !.score =
                               Combine(resultsMap[IndexOf(resultsMap, r.id)].score, @)]
                       ELSE r
         IN  AddSemanticResults(MapSet(resultsMap, merged), Tail(results))

\* the fusion of hybridSearch, after both searches have returned
hybridFusion(keyword, semantic) ==
    SortByScore(AddSemanticResults(AddKeywordResults(<<>>, keyword), semantic))

\* mutant: candidates exactly at the floor dropped
FilterAboveMinScore(results, minScore) ==
    SelectSeq(results, LAMBDA r : r.score > minScore)

\* retrieveRelevantChunks: results.filter(r => r.score >= minSimilarityScore)
FilterByMinScore(results, minScore) ==
    SelectSeq(results, LAMBDA r : r.score >= minScore)

(***************************************************************************)
(* retrieveRelevantChunks, one action per await                            *)
(***************************************************************************)
\* no rerank call in progress
RerankIdle ==
    /\ rpc = "idle"
    /\ op = "none"
    /\ candidates = <<>>
    /\ topK = 0
    /\ scorerFailed = FALSE
    /\ rerankScores = <<>>
    /\ reranked = <<>>
    /\ diverse = <<>>
    /\ weights = <<0, 0>>
    /\ combined = <<>>
    /\ tokenCount = 0
    /\ scorerCalls = 0

\* no comparison of the two scorers
ScoringIdle ==
    /\ spc = "idle"
    /\ outcome = [failed |-> FALSE, replies |-> <<>>]
    /\ chunkScores = <<>>
    /\ batchScores = <<>>

\* no embedding run
EmbedIdle ==
    /\ epc = "idle"
    /\ fileCount = 0
    /\ fileBatchStart = 0
    /\ fileInBatch = 0
    /\ chunksLength = 0
    /\ embedStart = 0
    /\ upsertLog = <<>>
    /\ processedFiles = 0
    /\ totalChunks = 0
    /\ attempted = {}

\* no chat session
ChatIdle ==
    /\ history = <<>>
    /\ cost = 0
    /\ queries = <<>>
    /\ resets = 0
    /\ pushed = <<>>

\* no chunkByMessages call in progress
IngestIdle ==
    /\ mpc = "idle"
    /\ messages = <<>>
    /\ ticketUid = ""
    /\ allChunks = <<>>
    /\ previousChunks = <<>>

\* no chunkText call in progress
ChunkIdle ==
    /\ cpc = "idle"
    /\ words = <<>>
    /\ chunkSize = 0
    /\ overlap = 0
    /\ minChunkSize = 0
    /\ chunks = <<>>
    /\ loopStart = 0
    /\ windows = <<>>

\* no retrieval in progress
\* no external call made yet
NoCalls == [embedding |-> 0, lexical |-> 0, vector |-> 0]

RetrievalIdle ==
    /\ pc = "idle"
    /\ minSimilarityScore = DefaultMinScore
    /\ indexResults = <<>>
    /\ keywordResults = <<>>
    /\ semanticResults = <<>>
    /\ hybridResults = <<>>
    /\ filtered = <<>>
    /\ failedCalls = {}
    /\ calls = NoCalls

Init ==
    /\ pc = "start"
    /\ minSimilarityScore \in MinSimilarityScores
    /\ indexResults = <<>>
    /\ keywordResults = <<>>
    /\ semanticResults = <<>>
    /\ hybridResults = <<>>
    /\ filtered = <<>>
    /\ failedCalls = {}
    /\ calls = NoCalls
    /\ RerankIdle
    /\ ChunkIdle
    /\ IngestIdle
    /\ ChatIdle
    /\ EmbedIdle
    /\ ScoringIdle

\* retrieveRelevantChunks: await generateEmbedding(query, costTracker)
GenerateEmbedding ==
    /\ pc = "start"
    /\ calls' = [calls EXCEPT !.embedding = @ + 1]
    /\ pc' = "embedded"
    /\ UNCHANGED <<minSimilarityScore, indexResults, keywordResults,
                   semanticResults, hybridResults, filtered, failedCalls,
                   rerankVars, chunkVars, ingestVars, chatVars, scoringVars,
                   embedVars>>

\* generateEmbedding: the embeddings call throws; the error is thrown on
GenerateEmbeddingFailure ==
    /\ pc = "start"
    /\ calls' = [calls EXCEPT !.embedding = @ + 1]
    /\ failedCalls' = failedCalls \cup {"embedding"}
    /\ pc' = "thrown"
    /\ UNCHANGED <<minSimilarityScore, indexResults, keywordResults,
                   semanticResults, hybridResults, filtered,
                   rerankVars, chunkVars, ingestVars, chatVars, scoringVars,
                   embedVars>>

\* hybridSearch: await this.metaKeywordSearch(query, keywordTopK)
MetaKeywordSearch ==
    /\ pc = "embedded"
    /\ \E L \in RankedLists(LexScores, MaxKeywordTopK) : keywordResults' = L
    /\ calls' = [calls EXCEPT !.lexical = @ + 1]
    /\ pc' = "keyword"
    /\ UNCHANGED <<minSimilarityScore, indexResults, semanticResults,
                   hybridResults, filtered, failedCalls,
                   rerankVars, chunkVars, ingestVars, chatVars, scoringVars,
                   embedVars>>

\* mutant: metaKeywordSearch throws the failure of its index call on
metaKeywordSearchRethrow == [threw |-> TRUE, results |-> <<>>]

\* metaKeywordSearch: catch (error) { console.warn(...); return []; }
metaKeywordSearchCatch == [threw |-> FALSE, results |-> <<>>]

\* metaKeywordSearch: the index call throws
MetaKeywordSearchFailure ==
    /\ pc = "embedded"
    /\ calls' = [calls EXCEPT !.lexical = @ + 1]
    /\ failedCalls' = failedCalls \cup {"lexical"}
    /\ keywordResults' = metaKeywordSearchCatch.results
    /\ pc' = IF metaKeywordSearchCatch.threw THEN "thrown" ELSE "keyword"
    /\ UNCHANGED <<minSimilarityScore, indexResults, semanticResults,
                   hybridResults, filtered,
                   rerankVars, chunkVars, ingestVars, chatVars, scoringVars,
                   embedVars>>

\* hybridSearch: await this.semanticSearch(queryEmbedding, semanticTopK)
SemanticSearch ==
    /\ pc = "keyword"
    /\ \E R \in RankedLists(VecScores, MaxSemanticTopK) :
          /\ indexResults' = R
          /\ semanticResults' = semanticSearch(R, DefaultMinScore)
    /\ calls' = [calls EXCEPT !.vector = @ + 1]
    /\ pc' = "semantic"
    /\ UNCHANGED <<minSimilarityScore, keywordResults, hybridResults, filtered,
                   failedCalls, rerankVars, chunkVars, ingestVars, chatVars,
                   scoringVars, embedVars>>

\* semanticSearch: the index call throws; the error is thrown on
SemanticSearchFailure ==
    /\ pc = "keyword"
    /\ calls' = [calls EXCEPT !.vector = @ + 1]
    /\ failedCalls' = failedCalls \cup {"vector"}
    /\ pc' = "thrown"
    /\ UNCHANGED <<minSimilarityScore, indexResults, keywordResults,
                   semanticResults, hybridResults, filtered,
                   rerankVars, chunkVars, ingestVars, chatVars, scoringVars,
                   embedVars>>

\* hybridSearch: resultsMap, sort, return
HybridSearch ==
    /\ pc = "semantic"
    /\ hybridResults' = hybridFusion(keywordResults, semanticResults)
    /\ pc' = "fused"
    /\ UNCHANGED <<minSimilarityScore, indexResults, keywordResults,
                   semanticResults, filtered, failedCalls, calls,
                   rerankVars, chunkVars, ingestVars, chatVars, scoringVars,
                   embedVars>>

\* retrieveRelevantChunks: filter and return
RetrieveRelevantChunks ==
    /\ pc = "fused"
    /\ filtered' = FilterByMinScore(hybridResults, minSimilarityScore)
    /\ pc' = "done"
    /\ UNCHANGED <<minSimilarityScore, indexResults, keywordResults,
                   semanticResults, hybridResults, failedCalls, calls,
                   rerankVars, chunkVars, ingestVars, chatVars, scoringVars,
                   embedVars>>

Next ==
    \/ GenerateEmbedding
    \/ GenerateEmbeddingFailure
    \/ MetaKeywordSearch
    \/ MetaKeywordSearchFailure
    \/ SemanticSearch
    \/ SemanticSearchFailure
    \/ HybridSearch
    \/ RetrieveRelevantChunks

Spec == Init /\ [][Next]_vars

(***************************************************************************)
(* rerankChunks, rerankWithOpenAI, rerankWithDiversity                     *)
(***************************************************************************)
Min(a, b) == IF a < b THEN a ELSE b

Max(a, b) == IF a > b THEN a ELSE b

\* the candidate lists retrieval can hand over: distinct ids, by descending score
CandidateLists ==
    { c \in UNION { { [i \in 1..n |-> [id |-> CandidateId(i), score |-> sc[i],
                                       ticketUid |-> tk[i]]] :
                        sc \in [1..n -> CandidateScores], tk \in [1..n -> Tickets] } :
                    n \in 0..MaxCandidates } :
        Descending(c) }

\* JSON.parse of one entry of the reply: the number it denotes
Number(token) ==
    CASE token = "3" -> 3
      [] token = "7" -> 7
      [] token = "12" -> 12
      [] token = "-2" -> 0 - 2

\* isNaN(score): true of an entry that is a string and not a number
isNaN(token) == token \notin {"3", "7", "12", "-2"}

\* mutant: the batch falls back to 0 like the single-chunk scorer
rerankChunksZeroDefault(reply, n) ==
    IF reply.failed
    THEN [i \in 1..n |-> 0]
    ELSE [i \in DOMAIN reply.ratings |->
             IF isNaN(reply.ratings[i]) THEN 0 ELSE Number(reply.ratings[i]) * 10]

\* rerankChunks: scores.map(score => isNaN(score) ? 0 : score / 10), or 0.5 for
\* every chunk when the call or the parsing of its reply throws
rerankChunks(reply, n) ==
    IF reply.failed
    THEN [i \in 1..n |-> DefaultRerankScore]
    ELSE [i \in DOMAIN reply.ratings |->
             IF isNaN(reply.ratings[i]) THEN 0 ELSE Number(reply.ratings[i]) * 10]

\* mutant: no early return for an empty candidate list
EmptyResultsIgnored(results) == FALSE

\* if (results.length === 0) return []
EmptyResults(results) == Len(results) = 0

\* mutant: originalIndex is the position after the sort
rerankWithOpenAIIndexAfterSort(results, scores, finalTopK) ==
    LET mapped == [i \in DOMAIN results |->
                      [id |-> results[i].id, score |-> scores[i],
                       originalIndex |-> i - 1, ticketUid |-> results[i].ticketUid]]
        sorted == SortByScore(mapped)
        top == SubSeq(sorted, 1, Min(finalTopK, Len(sorted)))
    IN  [i \in DOMAIN top |-> [top[i] EXCEPT !.originalIndex = i - 1]]

\* rerankWithOpenAI: results.map(...), sort by rerank score, slice(0, finalTopK)
rerankWithOpenAI(results, scores, finalTopK) ==
    LET mapped == [i \in DOMAIN results |->
                      [id |-> results[i].id, score |-> scores[i],
                       originalIndex |-> i - 1, ticketUid |-> results[i].ticketUid]]
        sorted == SortByScore(mapped)
    IN  SubSeq(sorted, 1, Min(finalTopK, Len(sorted)))

\* mutant: the two weights exchanged
CombinedScoreSwapped(originalScore, rerankScore, w) ==
    (w[2] * originalScore + w[1] * rerankScore) \div 10

\* originalWeight * result.score + rerankWeight * rerankScores[index]
CombinedScore(originalScore, rerankScore, w) ==
    (w[1] * originalScore + w[2] * rerankScore) \div 10

\* rerankWithCombinedScoring: results.map(...), sort by combined score,
\* slice(0, finalTopK)
rerankWithCombinedScoring(results, scores, w, finalTopK) ==
    LET mapped == [i \in DOMAIN results |->
                      [id |-> results[i].id,
                       score |-> CombinedScore(results[i].score, scores[i], w),
                       originalIndex |-> i - 1, ticketUid |-> results[i].ticketUid]]
        sorted == SortByScore(mapped)
    IN  SubSeq(sorted, 1, Min(finalTopK, Len(sorted)))

\* mutant: the diversity pass reranks only the topK best
DiversityRerankDepthTopK(results, k) == k

\* rerankWithDiversity: rerankWithOpenAI(query, results, costTracker, results.length)
DiversityRerankDepth(results, k) == Len(results)

\* mutant: the cap on results of an already selected ticket off by one
AcceptSeenTicketInclusive(diverseLength, k) == 2 * diverseLength <= k

\* rerankWithDiversity: diverse.length < topK / 2
AcceptSeenTicket(diverseLength, k) == 2 * diverseLength < k

\* rerankWithDiversity: for (const result of reranked) { ... }
RECURSIVE DiversityLoop(_, _, _, _)
DiversityLoop(rest, acc, selectedTickets, k) ==
    IF rest = <<>> THEN acc
    ELSE LET result == Head(rest)
             seen == result.ticketUid \in selectedTickets
             acc2 == IF seen
                     THEN IF AcceptSeenTicket(Len(acc), k)
                          THEN Append(acc, result) ELSE acc
                     ELSE Append(acc, result)
             selected2 == selectedTickets \cup {result.ticketUid}
         IN  IF Len(acc2) >= k THEN acc2
             ELSE DiversityLoop(Tail(rest), acc2, selected2, k)

\* a reranker about to be called with a cost tracker already in use
RerankReady ==
    /\ rpc = "ready"
    /\ op = "none"
    /\ topK \in 1..MaxTopK
    /\ scorerFailed = FALSE
    /\ rerankScores = <<>>
    /\ reranked = <<>>
    /\ diverse = <<>>
    /\ weights = <<0, 0>>
    /\ combined = <<>>
    /\ tokenCount \in TokenCounts
    /\ scorerCalls = 0
    /\ RetrievalIdle
    /\ ChunkIdle
    /\ IngestIdle
    /\ ChatIdle
    /\ EmbedIdle
    /\ ScoringIdle

RerankInit ==
    /\ candidates \in CandidateLists
    /\ RerankReady

\* rerankWithOpenAI(query, results, costTracker, topK) is called
RerankWithOpenAICall ==
    /\ rpc = "ready"
    /\ op' = "openai"
    /\ rpc' = IF EmptyResults(candidates) THEN "done" ELSE "scoring"
    /\ UNCHANGED <<candidates, topK, scorerFailed, rerankScores, reranked, diverse,
                   weights, combined, tokenCount, scorerCalls,
                   retrievalVars, chunkVars, ingestVars, chatVars, scoringVars,
                   embedVars>>

\* rerankWithCombinedScoring(query, results, costTracker, topK, originalWeight,
\* rerankWeight) is called
RerankWithCombinedScoringCall ==
    /\ rpc = "ready"
    /\ op' = "combined"
    /\ weights' \in WeightPairs
    /\ rpc' = IF EmptyResults(candidates) THEN "done" ELSE "scoring"
    /\ UNCHANGED <<candidates, topK, scorerFailed, rerankScores, reranked, diverse,
                   combined, tokenCount, scorerCalls, retrievalVars, chunkVars,
                   ingestVars, chatVars, scoringVars, embedVars>>

\* rerankWithDiversity(query, results, costTracker, topK) is called; it calls
\* rerankWithOpenAI(query, results, costTracker, results.length)
RerankWithDiversityCall ==
    /\ rpc = "ready"
    /\ op' = "diversity"
    /\ rpc' = IF EmptyResults(candidates) THEN "done" ELSE "scoring"
    /\ UNCHANGED <<candidates, topK, scorerFailed, rerankScores, reranked, diverse,
                   weights, combined, tokenCount, scorerCalls,
                   retrievalVars, chunkVars, ingestVars, chatVars, scoringVars,
                   embedVars>>

\* rerankChunks: the scorer replies with one rating per chunk; the tokens of
\* the call are added to the cost tracker
RerankChunksReply ==
    /\ rpc = "scoring"
    /\ \E ratings \in [1..Len(candidates) -> RawScores] :
          rerankScores' = rerankChunks([failed |-> FALSE, ratings |-> ratings],
                                       Len(candidates))
    /\ \E usage \in UsageTokens : tokenCount' = tokenCount + usage
    /\ scorerCalls' = scorerCalls + 1
    /\ rpc' = "scored"
    /\ UNCHANGED <<op, candidates, topK, scorerFailed, reranked, diverse,
                   weights, combined, retrievalVars, chunkVars, ingestVars,
                   chatVars, scoringVars, embedVars>>

\* rerankChunks: the scoring call throws (nothing is added to the cost
\* tracker), or its reply does not parse (its tokens were added before)
RerankChunksFailure ==
    /\ rpc = "scoring"
    /\ rerankScores' = rerankChunks([failed |-> TRUE, ratings |-> <<>>], Len(candidates))
    /\ scorerFailed' = TRUE
    /\ \E usage \in {0} \cup UsageTokens : tokenCount' = tokenCount + usage
    /\ scorerCalls' = scorerCalls + 1
    /\ rpc' = "scored"
    /\ UNCHANGED <<op, candidates, topK, reranked, diverse,
                   weights, combined, retrievalVars, chunkVars, ingestVars,
                   chatVars, scoringVars, embedVars>>

\* rerankWithOpenAI resumes with the scores and returns
RerankWithOpenAIReturn ==
    /\ rpc = "scored"
    /\ op \in {"openai", "diversity"}
    /\ reranked' = rerankWithOpenAI(candidates, rerankScores,
                                    IF op = "openai" THEN topK
                                    ELSE DiversityRerankDepth(candidates, topK))
    /\ rpc' = IF op = "openai" THEN "done" ELSE "reranked"
    /\ UNCHANGED <<op, candidates, topK, scorerFailed, rerankScores, diverse,
                   weights, combined, tokenCount, scorerCalls,
                   retrievalVars, chunkVars, ingestVars, chatVars, scoringVars,
                   embedVars>>

\* rerankWithCombinedScoring resumes with the scores and returns
RerankWithCombinedScoringReturn ==
    /\ rpc = "scored"
    /\ op = "combined"
    /\ combined' = rerankWithCombinedScoring(candidates, rerankScores, weights, topK)
    /\ rpc' = "done"
    /\ UNCHANGED <<op, candidates, topK, scorerFailed, rerankScores, reranked,
                   diverse, weights, tokenCount, scorerCalls,
                   retrievalVars, chunkVars, ingestVars, chatVars, scoringVars,
                   embedVars>>

\* rerankWithDiversity resumes with the full rerank order and returns
RerankWithDiversityReturn ==
    /\ rpc = "reranked"
    /\ diverse' = DiversityLoop(reranked, <<>>, {}, topK)
    /\ rpc' = "done"
    /\ UNCHANGED <<op, candidates, topK, scorerFailed, rerankScores, reranked,
                   weights, combined, tokenCount, scorerCalls,
                   retrievalVars, chunkVars, ingestVars, chatVars, scoringVars,
                   embedVars>>

RerankNext ==
    \/ RerankWithOpenAICall
    \/ RerankWithCombinedScoringCall
    \/ RerankWithDiversityCall
    \/ RerankChunksReply
    \/ RerankChunksFailure
    \/ RerankWithOpenAIReturn
    \/ RerankWithCombinedScoringReturn
    \/ RerankWithDiversityReturn

SpecRerank == RerankInit /\ [][RerankNext]_vars

(***************************************************************************)
(* rerankWithOpenAI with a scorer that does not keep to its scale          *)
(***************************************************************************)
\* candidate lists of one ticket
OneTicketLists ==
    { c \in CandidateLists : \A i \in DOMAIN c : c[i].ticketUid = "t1" }

ScorerInit ==
    /\ candidates \in OneTicketLists
    /\ RerankReady

\* rerankChunks: the scorer replies with one entry per chunk, any JSON value
RerankChunksAnyReply ==
    /\ rpc = "scoring"
    /\ \E ratings \in [1..Len(candidates) -> AnyRatings] :
          rerankScores' = rerankChunks([failed |-> FALSE, ratings |-> ratings],
                                       Len(candidates))
    /\ \E usage \in UsageTokens : tokenCount' = tokenCount + usage
    /\ scorerCalls' = scorerCalls + 1
    /\ rpc' = "scored"
    /\ UNCHANGED <<op, candidates, topK, scorerFailed, reranked, diverse,
                   weights, combined, retrievalVars, chunkVars, ingestVars,
                   chatVars, scoringVars, embedVars>>

ScorerNext ==
    \/ RerankWithOpenAICall
    \/ RerankChunksAnyReply
    \/ RerankChunksFailure
    \/ RerankWithOpenAIReturn

SpecScorer == ScorerInit /\ [][ScorerNext]_vars

(***************************************************************************)
(* rerankChunk, one call per candidate, beside one call of rerankChunks    *)
(***************************************************************************)
\* parseFloat(content.trim()): the number the text begins with, or NaN
parseFloat(content) ==
    IF content \in {"3", "7", "12", "-2"}
    THEN [nan |-> FALSE, value |-> Number(content)]
    ELSE [nan |-> TRUE, value |-> 0]

\* rerankChunk: isNaN(score) ? 0 : score / 10, and 0 when the call throws
rerankChunk(reply) ==
    IF reply.failed
    THEN 0
    ELSE LET score == parseFloat(reply.content)
         IN  IF score.nan THEN 0 ELSE score.value * 10

\* JSON.parse of the array the batch scorer replies with throws on an entry
\* that is no JSON value
JSONParseThrows(replies) == \E i \in DOMAIN replies : replies[i] = "high"

\* the scoring service either throws on every call or says of each chunk
\* what outcome.replies holds, in the single call and in the batch alike
ScoringInit ==
    /\ candidates \in OneTicketLists
    /\ rpc = "idle"
    /\ op = "none"
    /\ topK \in 1..MaxTopK
    /\ scorerFailed = FALSE
    /\ rerankScores = <<>>
    /\ reranked = <<>>
    /\ diverse = <<>>
    /\ weights = <<0, 0>>
    /\ combined = <<>>
    /\ tokenCount \in TokenCounts
    /\ scorerCalls = 0
    /\ spc = "ready"
    /\ outcome \in [failed : BOOLEAN, replies : [1..Len(candidates) -> ScorerReplies]]
    /\ chunkScores = <<>>
    /\ batchScores = <<>>
    /\ RetrievalIdle
    /\ ChunkIdle
    /\ IngestIdle
    /\ ChatIdle
    /\ EmbedIdle

\* rerankChunk for the next candidate: the call returns a reply
RerankChunkReply ==
    /\ spc \in {"ready", "batched"}
    /\ Len(chunkScores) < Len(candidates)
    /\ ~outcome.failed
    /\ chunkScores' =
          Append(chunkScores,
                 rerankChunk([failed |-> FALSE,
                              content |-> outcome.replies[Len(chunkScores) + 1]]))
    /\ \E usage \in UsageTokens : tokenCount' = tokenCount + usage
    /\ scorerCalls' = scorerCalls + 1
    /\ UNCHANGED <<rpc, op, candidates, topK, scorerFailed, rerankScores, reranked,
                   diverse, weights, combined, spc, outcome, batchScores,
                   retrievalVars, chunkVars, ingestVars, chatVars, embedVars>>

\* rerankChunk for the next candidate: the call throws
RerankChunkFailure ==
    /\ spc \in {"ready", "batched"}
    /\ Len(chunkScores) < Len(candidates)
    /\ outcome.failed
    /\ chunkScores' =
          Append(chunkScores, rerankChunk([failed |-> TRUE, content |-> ""]))
    /\ scorerCalls' = scorerCalls + 1
    /\ UNCHANGED <<rpc, op, candidates, topK, scorerFailed, rerankScores, reranked,
                   diverse, weights, combined, tokenCount, spc, outcome,
                   batchScores, retrievalVars, chunkVars, ingestVars, chatVars,
                   embedVars>>

\* rerankChunks for all candidates: the call returns a reply, which
\* JSON.parse accepts or not
RerankChunksBatchReply ==
    /\ spc = "ready"
    /\ ~outcome.failed
    /\ batchScores' =
          rerankChunks([failed |-> JSONParseThrows(outcome.replies),
                        ratings |-> outcome.replies], Len(candidates))
    /\ \E usage \in UsageTokens : tokenCount' = tokenCount + usage
    /\ scorerCalls' = scorerCalls + 1
    /\ spc' = "batched"
    /\ UNCHANGED <<rpc, op, candidates, topK, scorerFailed, rerankScores, reranked,
                   diverse, weights, combined, outcome, chunkScores,
                   retrievalVars, chunkVars, ingestVars, chatVars, embedVars>>

\* rerankChunks for all candidates: the call throws
RerankChunksBatchFailure ==
    /\ spc = "ready"
    /\ outcome.failed
    /\ batchScores' =
          rerankChunks([failed |-> TRUE, ratings |-> <<>>], Len(candidates))
    /\ scorerCalls' = scorerCalls + 1
    /\ spc' = "batched"
    /\ UNCHANGED <<rpc, op, candidates, topK, scorerFailed, rerankScores, reranked,
                   diverse, weights, combined, tokenCount, outcome, chunkScores,
                   retrievalVars, chunkVars, ingestVars, chatVars, embedVars>>

ScoringNext ==
    \/ RerankChunkReply
    \/ RerankChunkFailure
    \/ RerankChunksBatchReply
    \/ RerankChunksBatchFailure

SpecScoring == ScoringInit /\ [][ScoringNext]_vars

(***************************************************************************)
(* rerankByScore                                                           *)
(***************************************************************************)
\* original scores of the lists rerankByScore is given
ByScoreScores == {60, 70, 80}

\* the lists rerankByScore can be given: distinct ids, in any order of score
AnyOrderLists ==
    UNION { { [i \in 1..n |-> [id |-> CandidateId(i), score |-> sc[i],
                               ticketUid |-> "t1"]] :
                sc \in [1..n -> ByScoreScores] } :
            n \in 0..MaxCandidates }

\* mutant: originalIndex is the position in the list as it was given
rerankByScoreIndexBeforeSort(results, finalTopK) ==
    LET mapped == [i \in DOMAIN results |->
                      [id |-> results[i].id, score |-> results[i].score,
                       originalIndex |-> i - 1, ticketUid |-> results[i].ticketUid]]
        sorted == SortByScore(mapped)
    IN  SubSeq(sorted, 1, Min(finalTopK, Len(sorted)))

\* results.sort((a, b) => b.score - a.score).slice(0, finalTopK).map(...)
rerankByScore(results, finalTopK) ==
    LET sorted == SortByScore(results)
        top == SubSeq(sorted, 1, Min(finalTopK, Len(sorted)))
    IN  [i \in DOMAIN top |->
            [id |-> top[i].id, score |-> top[i].score,
             originalIndex |-> i - 1, ticketUid |-> top[i].ticketUid]]

ByScoreInit ==
    /\ candidates \in AnyOrderLists
    /\ RerankReady

\* rerankByScore(results, topK) is called and returns; the sort is done on
\* the array it was given
RerankByScore ==
    /\ rpc = "ready"
    /\ op' = "byScore"
    /\ reranked' = rerankByScore(candidates, topK)
    /\ candidates' = SortByScore(candidates)
    /\ rpc' = "done"
    /\ UNCHANGED <<topK, scorerFailed, rerankScores, diverse, weights, combined,
                   tokenCount, scorerCalls, retrievalVars, chunkVars, ingestVars,
                   chatVars, scoringVars, embedVars>>

ByScoreNext == RerankByScore

SpecByScore == ByScoreInit /\ [][ByScoreNext]_vars

(***************************************************************************)
(* Failures of the calls retrieveRelevantChunks makes                      *)
(***************************************************************************)
NoRetry == calls.embedding <= 1 /\ calls.lexical <= 1 /\ calls.vector <= 1

\* retrieveRelevantChunks threw and returned no candidates
Surfaced == pc = "thrown" /\ hybridResults = <<>> /\ filtered = <<>>

\* C25 as claimed: a failure of the embedding call, of the lexical search or
\* of the vector search is fatal for the query: retrieveRelevantChunks throws
\* instead of returning candidates, and no call is made a second time.
C25_EveryFailureFatal ==
    /\ NoRetry
    /\ failedCalls # {} => Surfaced

\* C25 amended: a failure of the embedding call or of the vector search is
\* fatal for the query: retrieveRelevantChunks throws instead of returning
\* candidates. A failure of the lexical search is not: metaKeywordSearch
\* returns an empty list and retrieval goes on with the vector results alone.
\* No call is made a second time.
C25_LexicalFailureAbsorbed ==
    /\ NoRetry
    /\ ("embedding" \in failedCalls \/ "vector" \in failedCalls) => Surfaced
    /\ pc = "thrown" => failedCalls \cap {"embedding", "vector"} # {}
    /\ failedCalls = {"lexical"} =>
          /\ pc \in {"keyword", "semantic", "fused", "done"}
          /\ keywordResults = <<>>
          /\ pc \in {"fused", "done"} => Ids(hybridResults) = Ids(semanticResults)
          /\ pc = "done" =>
                filtered = FilterByMinScore(SortByScore(semanticResults),
                                            minSimilarityScore)

\* the lexical search failed and retrieveRelevantChunks returned the two
\* passages the vector search found
C25_Witness ==
    /\ pc = "done"
    /\ failedCalls = {"lexical"}
    /\ calls = [embedding |-> 1, lexical |-> 1, vector |-> 1]
    /\ Len(semanticResults) = 2
    /\ Len(filtered) = 2

(***************************************************************************)
(* Properties of the rerank operations                                     *)
(***************************************************************************)
\* number of results of ticket t in s
CountOfTicket(s, t) == Cardinality({i \in DOMAIN s : s[i].ticketUid = t})

\* ceil(k / 2)
CeilHalf(k) == (k + 1) \div 2

DiversityDone == rpc = "done" /\ op = "diversity" /\ Len(candidates) > 0

OpenAIFailed == rpc = "done" /\ op = "openai" /\ scorerFailed

\* C4 as claimed: when the relevance-scoring call fails rerankWithOpenAI
\* returns candidates.length results, each with score 0.5.
C4_FallbackAllCandidates ==
    OpenAIFailed =>
        /\ Len(reranked) = Len(candidates)
        /\ \A i \in DOMAIN reranked : reranked[i].score = 50

\* C4 amended: when the relevance-scoring call fails rerankWithOpenAI does not
\* raise: it returns min(topK, candidates.length) results, the first
\* candidates in input order, each with score 0.5.
C4_FallbackTopK ==
    /\ scorerFailed => rpc \in {"scored", "reranked", "done"}
    /\ OpenAIFailed =>
        /\ Len(reranked) = Min(topK, Len(candidates))
        /\ \A i \in DOMAIN reranked :
              /\ reranked[i].score = 50
              /\ reranked[i].id = candidates[i].id
              /\ reranked[i].originalIndex = i - 1

\* the scoring call failed for three candidates and topK = 2
C4_Witness ==
    /\ OpenAIFailed
    /\ Len(candidates) = 3
    /\ topK = 2
    /\ Len(reranked) = 2

\* C15: rerankWithOpenAI, rerankWithCombinedScoring and rerankWithDiversity
\* called with an empty candidate list return an empty list at once: no
\* relevance-scoring call is made and nothing is added to the cost tracker.
C15_EmptyShortCircuit ==
    (op \in {"openai", "combined", "diversity"} /\ Len(candidates) = 0) =>
        /\ rpc = "done"
        /\ reranked = <<>>
        /\ combined = <<>>
        /\ diverse = <<>>
        /\ scorerCalls = 0
        /\ rerankScores = <<>>
        /\ tokenCount \in TokenCounts

\* rerankWithCombinedScoring has returned for an empty candidate list
C15_Witness ==
    /\ rpc = "done"
    /\ op = "combined"
    /\ Len(candidates) = 0
    /\ combined = <<>>
    /\ scorerCalls = 0

\* the candidate a result was made from
CandidateOf(r) == candidates[r.originalIndex + 1]

\* the results carry distinct input positions, each with the id found there
FromDistinctCandidates(out) ==
    /\ \A i \in DOMAIN out :
          /\ out[i].originalIndex \in 0..(Len(candidates) - 1)
          /\ out[i].id = CandidateOf(out[i]).id
    /\ \A i, j \in DOMAIN out : i # j => out[i].originalIndex # out[j].originalIndex

\* out is by descending score, and no candidate left out of it has a score,
\* given by position in scoreAt, above that of a result
TopByScore(out, scoreAt) ==
    /\ Descending(out)
    /\ \A i \in DOMAIN out : out[i].score = scoreAt[out[i].originalIndex + 1]
    /\ \A p \in DOMAIN candidates :
          (\A i \in DOMAIN out : out[i].originalIndex # p - 1) =>
              \A i \in DOMAIN out : out[i].score >= scoreAt[p]

\* C16: for n candidates rerankWithOpenAI returns the first min(topK, n)
\* candidates of the order by descending new relevance score, and the
\* originalIndex of each result is the zero-based position of its candidate
\* in the input: results[i].id = candidates[results[i].originalIndex].id.
C16_TopKByNewScore ==
    (rpc = "done" /\ op = "openai" /\ Len(candidates) > 0) =>
        /\ Len(reranked) = Min(topK, Len(candidates))
        /\ FromDistinctCandidates(reranked)
        /\ TopByScore(reranked, rerankScores)

\* three candidates, the last one rated highest: with topK = 2 it comes first
\* with originalIndex 2
C16_Witness ==
    /\ rpc = "done"
    /\ op = "openai"
    /\ Len(candidates) = 3
    /\ topK = 2
    /\ rerankScores = <<30, 30, 70>>
    /\ Len(reranked) = 2
    /\ reranked[1].originalIndex = 2
    /\ reranked[1].id = "p3"
    /\ reranked[2].originalIndex = 0

\* C17: every result of rerankWithOpenAI carries a relevance score in [0, 1],
\* one per candidate, whatever the scorer replies (ratings outside 0..10 and
\* entries that are not numbers included).
C17_ScoreInUnitRange ==
    (rpc = "done" /\ op = "openai" /\ Len(candidates) > 0) =>
        /\ Len(rerankScores) = Len(candidates)
        /\ \A i \in DOMAIN reranked :
              /\ reranked[i].score >= 0
              /\ reranked[i].score <= 100

\* the scorer rated the only candidate 12: the result has score 1.2
C17_Witness ==
    /\ rpc = "done"
    /\ op = "openai"
    /\ Len(candidates) = 1
    /\ ~scorerFailed
    /\ reranked[1].score = 120

\* position of the result made from input position p in the list s
PositionOf(s, p) == CHOOSE i \in DOMAIN s : s[i].originalIndex = p

\* results of diverse that stand before position j of the rerank order
AcceptedBefore(j) ==
    Cardinality({i \in DOMAIN diverse :
                    PositionOf(reranked, diverse[i].originalIndex) < j})

\* tickets of the results before position j of the rerank order
TicketsBefore(j) == {reranked[i].ticketUid : i \in 1..(j - 1)}

C19_CombinedScore ==
    (rpc = "done" /\ op = "combined" /\ Len(candidates) > 0) =>
        /\ Len(combined) = Min(topK, Len(candidates))
        /\ FromDistinctCandidates(combined)
        /\ weights \in WeightPairs
        /\ TopByScore(combined,
                      [p \in DOMAIN candidates |->
                          (weights[1] * candidates[p].score
                              + weights[2] * rerankScores[p]) \div 10])
        /\ \A i \in DOMAIN combined :
              10 * combined[i].score =
                  weights[1] * CandidateOf(combined[i]).score
                    + weights[2] * rerankScores[combined[i].originalIndex + 1]

\* default weights: the second candidate, 0.3 x 0.6 + 0.7 x 0.7 = 0.67, comes
\* before the first, 0.3 x 0.8 + 0.7 x 0.3 = 0.45
C19_Witness ==
    /\ rpc = "done"
    /\ op = "combined"
    /\ weights = <<DefaultOriginalWeight, DefaultRerankWeight>>
    /\ Len(candidates) = 2
    /\ candidates[1].score = 80
    /\ candidates[2].score = 60
    /\ rerankScores = <<30, 70>>
    /\ Len(combined) = 2
    /\ combined[1].originalIndex = 1
    /\ combined[1].score = 67
    /\ combined[2].score = 45

\* the step is a call of rerankByScore
ByScoreStep == rpc = "ready" /\ rpc' = "done" /\ op' = "byScore"

\* C20: rerankByScore makes no external call and returns the first topK
\* candidates in descending original score; given a list that is already
\* sorted it keeps that list's order; the originalIndex of each result is its
\* position in the sorted output.
C20_ByScoreKeepsFusedOrder ==
    [][ByScoreStep =>
        /\ scorerCalls' = scorerCalls
        /\ tokenCount' = tokenCount
        /\ rerankScores' = rerankScores
        /\ Len(reranked') = Min(topK, Len(candidates))
        /\ Descending(reranked')
        /\ \A i \in DOMAIN reranked' :
              /\ reranked'[i].originalIndex = i - 1
              /\ \E p \in DOMAIN candidates :
                    /\ candidates[p].id = reranked'[i].id
                    /\ candidates[p].score = reranked'[i].score
        /\ DistinctIds(reranked')
        /\ \A p \in DOMAIN candidates :
              candidates[p].id \notin Ids(reranked') =>
                  \A i \in DOMAIN reranked' : reranked'[i].score >= candidates[p].score
        /\ Descending(candidates) =>
              \A i \in DOMAIN reranked' : reranked'[i].id = candidates[i].id
       ]_vars

\* three candidates given as 0.6, 0.7, 0.8 and topK = 2: the third and the
\* second are returned, with originalIndex 0 and 1
C20_Witness ==
    /\ rpc = "done"
    /\ op = "byScore"
    /\ Len(candidates) = 3
    /\ topK = 2
    /\ scorerCalls = 0
    /\ reranked = <<[id |-> "p3", score |-> 80, originalIndex |-> 0, ticketUid |-> "t1"],
                    [id |-> "p2", score |-> 70, originalIndex |-> 1, ticketUid |-> "t1"]>>

\* C21: fusion and every rerank operation (rerankWithOpenAI,
\* rerankWithCombinedScoring, rerankByScore, rerankWithDiversity) leave their
\* input list unchanged: after the call the caller's list has the same
\* elements, in the same order, with the same scores.
C21_InputsUnchanged ==
    [][/\ candidates' = candidates
       /\ hybridResults' # hybridResults =>
             /\ keywordResults' = keywordResults
             /\ semanticResults' = semanticResults
      ]_vars

\* rerankByScore has returned and the caller's list, given with ids p1, p2,
\* p3 in that order, now starts with p3
C21_Witness ==
    /\ rpc = "done"
    /\ op = "byScore"
    /\ Len(candidates) = 3
    /\ candidates[1].id = "p3"
    /\ candidates[1].score = 80


(***************************************************************************)
(* chunkText                                                               *)
(***************************************************************************)
\* words.join(" ").length
RECURSIVE JoinLength(_)
JoinLength(ws) ==
    IF ws = <<>> THEN 0
    ELSE IF Len(ws) = 1 THEN Len(ws[1])
    ELSE LET half == Len(ws) \div 2
         IN  JoinLength(SubSeq(ws, 1, half)) + 1
                + JoinLength(SubSeq(ws, half + 1, Len(ws)))

\* mutant: the overlap added to the step instead of subtracted
StepPastOverlap(size, over) == Max(1, size + over)

\* mutant: the step is clamped to 0 words instead of 1
StepClampedToZero(size, over) == Max(0, size - over)

\* mutant: the step is the whole window, the overlap is ignored
StepIgnoresOverlap(size, over) == Max(1, size)

\* Math.max(1, chunkSize - overlap)
Step(size, over) == Max(1, size - over)

\* mutant: the window after the first runs to the end of the text
WindowEndAbsorbTail(start, size, n) == IF start = 0 THEN Min(start + size, n) ELSE n

\* Math.min(start + chunkSize, words.length)
WindowEnd(start, size, n) == Min(start + size, n)

\* mutant: a window of exactly minChunkSize characters is dropped
KeepsChunkAboveMinimum(length, minSize) == length > minSize

\* chunk.length >= config.chunking.minChunkSize
KeepsChunk(length, minSize) == length >= minSize

\* while (start < words.length) { ... }; a chunk is kept with the word
\* positions [start, end) it was cut from
RECURSIVE ChunkLoop(_, _, _, _, _, _)
ChunkLoop(ws, size, over, minSize, start, acc) ==
    IF ~(start < Len(ws)) THEN acc
    ELSE LET end == WindowEnd(start, size, Len(ws))
             chunk == [start |-> start, end |-> end,
                       words |-> SubSeq(ws, start + 1, end)]
             acc2 == IF KeepsChunk(JoinLength(chunk.words), minSize)
                     THEN Append(acc, chunk) ELSE acc
         IN  IF end = Len(ws) THEN acc2
             ELSE ChunkLoop(ws, size, over, minSize, start + Step(size, over), acc2)

chunkText(ws, size, over, minSize) ==
    IF Len(ws) = 0 THEN <<>>
    ELSE ChunkLoop(ws, size, over, minSize, 0, <<>>)

\* the text of the 1000-word example
ExampleWords == [i \in 1..(2 * DefaultChunkSize) |-> IF i % 2 = 1 THEN "a" ELSE "bbb"]

IsExample ==
    /\ words = ExampleWords
    /\ chunkSize = DefaultChunkSize
    /\ overlap = DefaultOverlap
    /\ minChunkSize = DefaultMinChunkSize

ChunkInit ==
    /\ cpc = "ready"
    /\ chunks = <<>>
    /\ loopStart = 0
    /\ windows = <<>>
    /\ \/ /\ words \in UNION { [1..n -> Words] : n \in 0..MaxWords }
          /\ chunkSize \in 1..MaxChunkSize
          /\ overlap \in 0..MaxChunkSize
          /\ minChunkSize \in MinChunkSizes
       \/ IsExample
    /\ RetrievalIdle
    /\ RerankIdle
    /\ IngestIdle
    /\ ChatIdle
    /\ EmbedIdle
    /\ ScoringIdle

\* chunkText(text, chunkSize, overlap)
ChunkText ==
    /\ cpc = "ready"
    /\ chunks' = chunkText(words, chunkSize, overlap, minChunkSize)
    /\ cpc' = "done"
    /\ UNCHANGED <<words, chunkSize, overlap, minChunkSize, loopStart, windows,
                   retrievalVars, rerankVars, ingestVars, chatVars, scoringVars,
                   embedVars>>

ChunkNext == ChunkText

SpecChunk == ChunkInit /\ [][ChunkNext]_vars

(***************************************************************************)
(* chunkText, one loop iteration per step                                  *)
(***************************************************************************)
\* the loop is followed for at most this many iterations
MaxIterations == MaxWords + 1

ChunkLoopInit ==
    /\ cpc = "ready"
    /\ chunks = <<>>
    /\ loopStart = 0
    /\ windows = <<>>
    /\ words \in UNION { [1..n -> Words] : n \in 0..MaxWords }
    /\ chunkSize \in 1..MaxChunkSize
    /\ overlap \in 0..MaxChunkSize
    /\ minChunkSize \in MinChunkSizes
    /\ RetrievalIdle
    /\ RerankIdle
    /\ IngestIdle
    /\ ChatIdle
    /\ EmbedIdle
    /\ ScoringIdle

\* const words = ...; if (words.length === 0) return chunks; let start = 0
ChunkTextEnter ==
    /\ cpc = "ready"
    /\ cpc' = IF Len(words) = 0 THEN "done" ELSE "loop"
    /\ UNCHANGED <<words, chunkSize, overlap, minChunkSize, chunks, loopStart,
                   windows, retrievalVars, rerankVars, ingestVars, chatVars,
                   scoringVars, embedVars>>

\* one evaluation of while (start < words.length) and of the loop body
ChunkLoopIteration ==
    /\ cpc = "loop"
    /\ Len(windows) < MaxIterations
    /\ IF ~(loopStart < Len(words))
       THEN /\ cpc' = "done"
            /\ UNCHANGED <<chunks, loopStart, windows>>
       ELSE LET end == WindowEnd(loopStart, chunkSize, Len(words))
                chunk == [start |-> loopStart, end |-> end,
                          words |-> SubSeq(words, loopStart + 1, end)]
            IN  /\ windows' = Append(windows, <<loopStart, end>>)
                /\ chunks' = IF KeepsChunk(JoinLength(chunk.words), minChunkSize)
                             THEN Append(chunks, chunk) ELSE chunks
                /\ IF end = Len(words)
                   THEN cpc' = "done" /\ UNCHANGED loopStart
                   ELSE /\ cpc' = "loop"
                        /\ loopStart' = loopStart + Step(chunkSize, overlap)
    /\ UNCHANGED <<words, chunkSize, overlap, minChunkSize, retrievalVars, rerankVars,
                   ingestVars, chatVars, scoringVars, embedVars>>

ChunkLoopNext == ChunkTextEnter \/ ChunkLoopIteration

\* the loop body makes no call that can block, so a started call keeps running
SpecChunkLoop == ChunkLoopInit /\ [][ChunkLoopNext]_vars /\ WF_vars(ChunkLoopNext)

(***************************************************************************)
(* createTextChunks / chunkByMessages                                      *)
(***************************************************************************)
\* uid of the message at position i of a ticket: distinct, one of them empty
MessageUid(i) == <<"m1", "m1_chunk_0", "", "m2", "m3">>[i]

\* the message lists chunkByMessages is given
MessageLists ==
    UNION { { [i \in 1..n |-> [uid |-> MessageUid(i), words |-> txt[i]]] :
                txt \in [1..n -> UNION { [1..k -> Words] : k \in 0..MaxMessageWords }] } :
            n \in 0..MaxMessages }

\* mutant: the id leaves the message out
ChunkIdOfTicket(tuid, messageUid, index) ==
    tuid \o "_chunk_" \o ToString(index)

\* messageUid ? `${uid}_${messageUid}_chunk_${index}` : `${uid}_chunk_${index}`
ChunkId(tuid, messageUid, index) ==
    IF messageUid # ""
    THEN tuid \o "_" \o messageUid \o "_chunk_" \o ToString(index)
    ELSE tuid \o "_chunk_" \o ToString(index)

\* createTextChunks: one TextChunk per text returned by chunkText, with the
\* word positions [start, end) of the message it was cut from
createTextChunks(ws, tuid, messageUid, size, over, minSize) ==
    LET chunkTexts == chunkText(ws, size, over, minSize)
    IN  [index \in DOMAIN chunkTexts |->
            [id |-> ChunkId(tuid, messageUid, index - 1),
             words |-> chunkTexts[index].words,
             start |-> chunkTexts[index].start,
             end |-> chunkTexts[index].end,
             ticketUid |-> tuid,
             messageUid |-> messageUid,
             chunkIndex |-> index - 1,
             totalChunks |-> Len(chunkTexts)]]

\* the words of all messages, one after the other
RECURSIVE AllWords(_)
AllWords(msgs) ==
    IF msgs = <<>> THEN <<>>
    ELSE AllWords(SubSeq(msgs, 1, Len(msgs) - 1)) \o msgs[Len(msgs)].words

\* mutant: the contents are joined and chunked as one text
chunkByMessagesJoined(msgs, tuid, size, over, minSize) ==
    IF msgs = <<>> THEN <<>>
    ELSE createTextChunks(AllWords(msgs), tuid, msgs[1].uid, size, over, minSize)

\* chunkByMessages: messages.forEach(message => allChunks.push(...chunks))
RECURSIVE chunkByMessages(_, _, _, _, _)
chunkByMessages(msgs, tuid, size, over, minSize) ==
    IF msgs = <<>> THEN <<>>
    ELSE chunkByMessages(SubSeq(msgs, 1, Len(msgs) - 1), tuid, size, over, minSize)
            \o createTextChunks(msgs[Len(msgs)].words, tuid, msgs[Len(msgs)].uid,
                                size, over, minSize)

MessagesInit ==
    /\ mpc = "ready"
    /\ messages \in MessageLists
    /\ ticketUid = "t1"
    /\ allChunks = <<>>
    /\ previousChunks = <<>>
    /\ cpc = "idle"
    /\ words = <<>>
    /\ chunkSize \in 1..MaxChunkSize
    /\ overlap \in 0..1
    /\ minChunkSize \in {0, 3}
    /\ chunks = <<>>
    /\ loopStart = 0
    /\ windows = <<>>
    /\ RetrievalIdle
    /\ RerankIdle
    /\ ChatIdle
    /\ EmbedIdle
    /\ ScoringIdle

\* chunkByMessages(messages, ticketRecord) is called, for the first time or
\* again on the same ticket, and returns
ChunkByMessages ==
    /\ mpc \in {"ready", "done"}
    /\ previousChunks' = allChunks
    /\ allChunks' = chunkByMessages(messages, ticketUid, chunkSize, overlap, minChunkSize)
    /\ mpc' = IF mpc = "ready" THEN "done" ELSE "again"
    /\ UNCHANGED <<messages, ticketUid, retrievalVars, rerankVars, chunkVars, chatVars,
                   scoringVars, embedVars>>

MessagesNext == ChunkByMessages

SpecMessages == MessagesInit /\ [][MessagesNext]_vars

(***************************************************************************)
(* chatLoop / processQuery                                                 *)
(***************************************************************************)
\* response.usage.total_tokens of the embedding, the scoring and the chat
\* completion call of a query
TokenUsage == [embedding |-> 1, rerank |-> 2, generation |-> 4]

\* the chunk lists retrieveRelevantChunks returns to processQuery
RetrievedLists == {<<>>, <<"p1">>}

\* what rerankWithDiversity returns for one chunk: that chunk, the result of
\* a new ticket being always accepted
RerankedOrders(chunkIds) == {chunkIds}

\* number of exchanges the session had before the lines of the model
PriorExchanges == {0, 10}

SystemMessage == [role |-> "system", query |-> 0]

\* the user and the assistant message of the n exchanges before line 1
PriorMessages(n) ==
    [i \in 1..(2 * n) |->
        [role |-> IF i % 2 = 1 THEN "user" ELSE "assistant",
         query |-> ((i + 1) \div 2) - n - 1]]

\* a line that has not arrived yet
Unsent ==
    [pos |-> "unsent", startTokens |-> 0, ownTokens |-> 0, sources |-> <<>>,
     tokensUsed |-> 0, rerankCalls |-> 0, generationCalls |-> 0]

InFlight(q) == queries[q].pos \in {"embedding", "searching", "reranking", "generating"}

ChatInit ==
    /\ \E n \in PriorExchanges :
          /\ history = <<SystemMessage>> \o PriorMessages(n)
          /\ pushed = PriorMessages(n)
          /\ cost = n * (TokenUsage.embedding + TokenUsage.rerank + TokenUsage.generation)
    /\ queries = [q \in 1..MaxLines |-> Unsent]
    /\ resets = 0
    /\ RetrievalIdle
    /\ RerankIdle
    /\ ChunkIdle
    /\ IngestIdle
    /\ ScoringIdle
    /\ EmbedIdle

\* rl.on("line"): a query line; processQuery reads startTokens and awaits the
\* embedding of the query
QueryLine(q) ==
    /\ queries[q].pos = "unsent"
    /\ \A p \in 1..(q - 1) : queries[p].pos # "unsent"
    /\ Cardinality({p \in 1..MaxLines : InFlight(p)}) < MaxInFlight
    /\ queries' = [queries EXCEPT ![q].pos = "embedding", ![q].startTokens = cost]
    /\ UNCHANGED <<history, cost, resets, pushed,
                   retrievalVars, rerankVars, chunkVars, ingestVars, scoringVars,
                   embedVars>>

\* rl.on("line"): a reset line
ResetLine ==
    /\ resets < MaxResets
    /\ history' = SubSeq(history, 1, 1)
    /\ cost' = 0
    /\ resets' = resets + 1
    /\ pushed' = <<>>
    /\ UNCHANGED <<queries, retrievalVars, rerankVars, chunkVars, ingestVars,
                   scoringVars, embedVars>>

\* generateEmbedding resolves: the tokens are added, hybridSearch is awaited
EmbeddingReply(q) ==
    /\ queries[q].pos = "embedding"
    /\ cost' = cost + TokenUsage.embedding
    /\ queries' = [queries EXCEPT ![q].pos = "searching",
                                  ![q].ownTokens = @ + TokenUsage.embedding]
    /\ UNCHANGED <<history, resets, pushed,
                   retrievalVars, rerankVars, chunkVars, ingestVars, scoringVars,
                   embedVars>>

\* generateEmbedding throws: processQuery throws, the handler reports it
EmbeddingFailure(q) ==
    /\ queries[q].pos = "embedding"
    /\ queries' = [queries EXCEPT ![q].pos = "failed"]
    /\ UNCHANGED <<history, cost, resets, pushed,
                   retrievalVars, rerankVars, chunkVars, ingestVars, scoringVars,
                   embedVars>>

\* mutant: no early return when nothing was retrieved
NoChunksIgnored(retrieved) == FALSE

\* if (retrievedChunks.length === 0)
NoChunks(retrieved) == Len(retrieved) = 0

\* retrieveRelevantChunks returns: with no chunk processQuery returns its
\* answer, otherwise it awaits rerankWithDiversity
RetrieveReturn(q) ==
    /\ queries[q].pos = "searching"
    /\ \E retrieved \in RetrievedLists :
          queries' =
              IF NoChunks(retrieved)
              THEN [queries EXCEPT ![q].pos = "answered",
                                   ![q].sources = <<>>,
                                   ![q].tokensUsed = cost - queries[q].startTokens]
              ELSE [queries EXCEPT ![q].pos = "reranking",
                                   ![q].sources = retrieved,
                                   ![q].rerankCalls = @ + 1]
    /\ UNCHANGED <<history, cost, resets, pushed,
                   retrievalVars, rerankVars, chunkVars, ingestVars, scoringVars,
                   embedVars>>

\* hybridSearch throws: processQuery throws, the handler reports it
RetrieveFailure(q) ==
    /\ queries[q].pos = "searching"
    /\ queries' = [queries EXCEPT ![q].pos = "failed"]
    /\ UNCHANGED <<history, cost, resets, pushed,
                   retrievalVars, rerankVars, chunkVars, ingestVars, scoringVars,
                   embedVars>>

\* conversationHistory.push(message)
Push(h, message) == Append(h, message)

\* if (length > 21) conversationHistory.splice(1, length - 21)
Prune(h) ==
    IF Len(h) > HistoryLimit
    THEN <<h[1]>> \o SubSeq(h, Len(h) - HistoryLimit + 2, Len(h))
    ELSE h

\* rerankWithDiversity returns, the tokens of its scoring call added: the
\* user message is pushed and generateChatCompletion is awaited
RerankReturn(q) ==
    /\ queries[q].pos = "reranking"
    /\ \E usage \in {TokenUsage.rerank}, order \in RerankedOrders(queries[q].sources) :
          /\ cost' = cost + usage
          /\ queries' = [queries EXCEPT ![q].pos = "generating",
                                        ![q].sources = order,
                                        ![q].ownTokens = @ + usage,
                                        ![q].generationCalls = @ + 1]
    /\ history' = Push(history, [role |-> "user", query |-> q])
    /\ pushed' = Append(pushed, [role |-> "user", query |-> q])
    /\ UNCHANGED <<resets, retrievalVars, rerankVars, chunkVars, ingestVars,
                   scoringVars, embedVars>>

\* generateChatCompletion resolves: its tokens are added, the assistant
\* message is pushed, the history pruned and the response returned
GenerationReply(q) ==
    /\ queries[q].pos = "generating"
    /\ cost' = cost + TokenUsage.generation
    /\ history' = Prune(Push(history, [role |-> "assistant", query |-> q]))
    /\ pushed' = Append(pushed, [role |-> "assistant", query |-> q])
    /\ queries' = [queries EXCEPT ![q].pos = "answered",
                                  ![q].ownTokens = @ + TokenUsage.generation,
                                  ![q].tokensUsed = cost' - queries[q].startTokens]
    /\ UNCHANGED <<resets, retrievalVars, rerankVars, chunkVars, ingestVars,
                   scoringVars, embedVars>>

\* generateChatCompletion throws: processQuery throws, the handler reports it
GenerationFailure(q) ==
    /\ queries[q].pos = "generating"
    /\ queries' = [queries EXCEPT ![q].pos = "failed"]
    /\ UNCHANGED <<history, cost, resets, pushed,
                   retrievalVars, rerankVars, chunkVars, ingestVars, scoringVars,
                   embedVars>>

ChatNext ==
    \/ ResetLine
    \/ \E q \in 1..MaxLines :
          \/ QueryLine(q)
          \/ EmbeddingReply(q)
          \/ EmbeddingFailure(q)
          \/ RetrieveReturn(q)
          \/ RetrieveFailure(q)
          \/ RerankReturn(q)
          \/ GenerationReply(q)
          \/ GenerationFailure(q)

SpecChat == ChatInit /\ [][ChatNext]_vars

(***************************************************************************)
(* embedDirectory                                                          *)
(* Binary assets and token counts are left out; chunks are named by their  *)
(* position in the list chunkByMessages returns.                           *)
(***************************************************************************)
\* chunks.length of a ticket file: no chunk, one batch, two batches
ChunkCounts == {0, 2, EmbeddingBatchSize + 1}

\* numbers of ticket files findTicketFiles returns
FileCounts == {0, 2, MaxFiles}

\* the file being processed, counted from 1
FilePath == fileBatchStart + fileInBatch + 1

\* batch = ticketFiles.slice(i, i + batchSize)
FileBatchLength(i) == Min(FileBatchSize, fileCount - i)

\* mutant: a batch takes one chunk more, which the next batch takes again
ChunkBatchOverlapping(j, n) == <<j, Min(EmbeddingBatchSize + 1, n - j)>>

\* chunkBatch = chunks.slice(j, j + embeddingBatchSize): <<j, length>>
ChunkBatch(j, n) == <<j, Min(EmbeddingBatchSize, n - j)>>

EmbedInit ==
    /\ epc = "file"
    /\ fileCount \in FileCounts
    /\ fileBatchStart = 0
    /\ fileInBatch = 0
    /\ chunksLength = 0
    /\ embedStart = 0
    /\ upsertLog = <<>>
    /\ processedFiles = 0
    /\ totalChunks = 0
    /\ attempted = {}
    /\ RetrievalIdle
    /\ RerankIdle
    /\ ChunkIdle
    /\ IngestIdle
    /\ ChatIdle
    /\ ScoringIdle

\* for (const filePath of batch) inside for (i += batchSize): the next file
NextFile ==
    /\ epc' = "file"
    /\ IF fileInBatch + 1 < FileBatchLength(fileBatchStart)
       THEN fileInBatch' = fileInBatch + 1 /\ fileBatchStart' = fileBatchStart
       ELSE fileInBatch' = 0 /\ fileBatchStart' = fileBatchStart + FileBatchSize

\* extractTicketPackage(filePath) returns
ExtractTicketPackage ==
    /\ epc = "file"
    /\ fileBatchStart < fileCount
    /\ attempted' = attempted \cup {FilePath}
    /\ chunksLength' = 0
    /\ embedStart' = 0
    /\ upsertLog' = <<>>
    /\ epc' = "extracted"
    /\ UNCHANGED <<fileCount, fileBatchStart, fileInBatch, processedFiles,
                   totalChunks, retrievalVars, rerankVars, chunkVars, ingestVars,
                   chatVars, scoringVars>>

\* extractTicketPackage(filePath) throws: catch, log, next file
ExtractTicketPackageFailure ==
    /\ epc = "file"
    /\ fileBatchStart < fileCount
    /\ attempted' = attempted \cup {FilePath}
    /\ chunksLength' = 0
    /\ embedStart' = 0
    /\ upsertLog' = <<>>
    /\ NextFile
    /\ UNCHANGED <<fileCount, processedFiles, totalChunks, retrievalVars,
                   rerankVars, chunkVars, ingestVars, chatVars, scoringVars>>

\* no record with _context "ticket": continue
NoTicketRecord ==
    /\ epc = "extracted"
    /\ NextFile
    /\ UNCHANGED <<fileCount, chunksLength, embedStart, upsertLog, processedFiles,
                   totalChunks, attempted, retrievalVars, rerankVars, chunkVars,
                   ingestVars, chatVars, scoringVars>>

\* saveBinaryAsset, saveTicketMetadata and saveMessageMetadata return and
\* chunkByMessages makes the chunks; continue when there is none
SaveMetadata ==
    /\ epc = "extracted"
    /\ \E n \in ChunkCounts :
          /\ chunksLength' = n
          /\ IF n = 0
             THEN NextFile
             ELSE /\ epc' = "embedding"
                  /\ UNCHANGED <<fileBatchStart, fileInBatch>>
    /\ embedStart' = 0
    /\ UNCHANGED <<fileCount, upsertLog, processedFiles, totalChunks, attempted,
                   retrievalVars, rerankVars, chunkVars, ingestVars, chatVars,
                   scoringVars>>

\* one of the save calls throws: catch, log, next file
SaveMetadataFailure ==
    /\ epc = "extracted"
    /\ NextFile
    /\ UNCHANGED <<fileCount, chunksLength, embedStart, upsertLog, processedFiles,
                   totalChunks, attempted, retrievalVars, rerankVars, chunkVars,
                   ingestVars, chatVars, scoringVars>>

\* generateEmbeddings(texts, cost) returns for the batch at j
GenerateEmbeddings ==
    /\ epc = "embedding"
    /\ epc' = "upserting"
    /\ UNCHANGED <<fileCount, fileBatchStart, fileInBatch, chunksLength, embedStart,
                   upsertLog, processedFiles, totalChunks, attempted,
                   retrievalVars, rerankVars, chunkVars, ingestVars, chatVars,
                   scoringVars>>

\* generateEmbeddings throws: catch, log, next file
GenerateEmbeddingsFailure ==
    /\ epc = "embedding"
    /\ NextFile
    /\ UNCHANGED <<fileCount, chunksLength, embedStart, upsertLog, processedFiles,
                   totalChunks, attempted, retrievalVars, rerankVars, chunkVars,
                   ingestVars, chatVars, scoringVars>>

\* vectorStore.upsertBatch(chunkBatch, embeddings) returns: totalChunks +=
\* chunkBatch.length, j += embeddingBatchSize; after the last batch
\* processedFiles++ and the next file
UpsertBatch ==
    /\ epc = "upserting"
    /\ LET chunkBatch == ChunkBatch(embedStart, chunksLength)
       IN  /\ upsertLog' = Append(upsertLog, chunkBatch)
           /\ totalChunks' = totalChunks + chunkBatch[2]
    /\ embedStart' = embedStart + EmbeddingBatchSize
    /\ IF embedStart' < chunksLength
       THEN /\ epc' = "embedding"
            /\ UNCHANGED <<fileBatchStart, fileInBatch, processedFiles>>
       ELSE /\ processedFiles' = processedFiles + 1
            /\ NextFile
    /\ UNCHANGED <<fileCount, chunksLength, attempted, retrievalVars, rerankVars,
                   chunkVars, ingestVars, chatVars, scoringVars>>

\* upsertBatch throws: catch, log, next file
UpsertBatchFailure ==
    /\ epc = "upserting"
    /\ NextFile
    /\ UNCHANGED <<fileCount, chunksLength, embedStart, upsertLog, processedFiles,
                   totalChunks, attempted, retrievalVars, rerankVars, chunkVars,
                   ingestVars, chatVars, scoringVars>>

\* the loop over the files has ended: sqlite.close() and the summary
EmbeddingComplete ==
    /\ epc = "file"
    /\ fileBatchStart >= fileCount
    /\ epc' = "complete"
    /\ UNCHANGED <<fileCount, fileBatchStart, fileInBatch, chunksLength, embedStart,
                   upsertLog, processedFiles, totalChunks, attempted,
                   retrievalVars, rerankVars, chunkVars, ingestVars, chatVars,
                   scoringVars>>

EmbedNext ==
    \/ ExtractTicketPackage
    \/ ExtractTicketPackageFailure
    \/ NoTicketRecord
    \/ SaveMetadata
    \/ SaveMetadataFailure
    \/ GenerateEmbeddings
    \/ GenerateEmbeddingsFailure
    \/ UpsertBatch
    \/ UpsertBatchFailure
    \/ EmbeddingComplete

SpecEmbed == EmbedInit /\ [][EmbedNext]_vars

(***************************************************************************)
(* Properties of chunkText                                                 *)
(***************************************************************************)
\* every word position lies in an emitted chunk that holds the words there
Covered ==
    \A p \in 1..Len(words) :
        \E i \in DOMAIN chunks :
            /\ chunks[i].start < p
            /\ p <= chunks[i].end
            /\ chunks[i].words[p - chunks[i].start] = words[p]

\* the first chunk followed by each later chunk without its first over words
RECURSIVE Reassemble(_, _)
Reassemble(cs, over) ==
    IF cs = <<>> THEN <<>>
    ELSE IF Len(cs) = 1 THEN cs[1].words
    ELSE LET last == cs[Len(cs)].words
         IN  Reassemble(SubSeq(cs, 1, Len(cs) - 1), over)
                \o SubSeq(last, over + 1, Len(last))

\* starts of the windows the sliding window visits, for overlap < chunkSize
WindowStarts ==
    { s \in 0..(Len(words) - 1) :
        /\ s % (chunkSize - overlap) = 0
        /\ s = 0 \/ s - (chunkSize - overlap) + chunkSize < Len(words) }

\* no window's joined text is shorter than minChunkSize characters
NoWindowDropped ==
    \A s \in WindowStarts :
        JoinLength(SubSeq(words, s + 1, Min(s + chunkSize, Len(words)))) >= minChunkSize

\* C5 as claimed: for 0 <= overlap < chunkSize and any minChunkSize every word
\* position lies in an emitted chunk, and the first chunk followed by the
\* non-overlapping suffixes of the others is the original word sequence.
C5_CoverageAnyFloor ==
    (cpc = "done" /\ overlap < chunkSize) =>
        /\ Covered
        /\ Reassemble(chunks, overlap) = words

\* C5 amended: for 0 <= overlap < chunkSize, when no window's joined text is
\* shorter than minChunkSize characters (none is dropped by the floor), every
\* word position lies in an emitted chunk, and the first chunk followed by the
\* non-overlapping suffixes of the others is the original word sequence.
C5_CoverageNoDrop ==
    (cpc = "done" /\ overlap < chunkSize /\ NoWindowDropped) =>
        /\ Covered
        /\ Reassemble(chunks, overlap) = words

\* five words in windows of three with overlap one and a floor of three
\* characters: two chunks, nothing dropped
C5_Witness ==
    /\ cpc = "done"
    /\ Len(words) = 5
    /\ chunkSize = 3
    /\ overlap = 1
    /\ minChunkSize = 3
    /\ NoWindowDropped
    /\ Len(chunks) = 2

ChunkSpan(c) == <<c.start, c.end>>

\* C6 as claimed: 1000 words with chunkSize 500, overlap 128, minChunkSize 50
\* give exactly 2 chunks, words [0,500) and [372,1000), the second 628 long.
C6_ExampleTwoChunks ==
    (cpc = "done" /\ IsExample) =>
        /\ Len(chunks) = 2
        /\ ChunkSpan(chunks[1]) = <<0, 500>>
        /\ ChunkSpan(chunks[2]) = <<372, 1000>>
        /\ Len(chunks[2].words) = 628

\* C6 amended: 1000 words with chunkSize 500, overlap 128, minChunkSize 50
\* give exactly 3 chunks, words [0,500), [372,872) and [744,1000); the last
\* chunk is 256 words long.
C6_ExampleThreeChunks ==
    (cpc = "done" /\ IsExample) =>
        /\ Len(chunks) = 3
        /\ ChunkSpan(chunks[1]) = <<0, 500>>
        /\ ChunkSpan(chunks[2]) = <<372, 872>>
        /\ ChunkSpan(chunks[3]) = <<744, 1000>>
        /\ Len(chunks[1].words) = 500
        /\ Len(chunks[2].words) = 500
        /\ Len(chunks[3].words) = 256

\* the example has been chunked
C6_Witness == cpc = "done" /\ IsExample /\ Len(chunks) > 0

\* C11 as claimed: for 0 <= overlap < chunkSize any two consecutive emitted
\* chunks share exactly overlap words, the last overlap words of one being the
\* first overlap words of the next, and only the final chunk may have fewer
\* than chunkSize words.
C11_OverlapAnyFloor ==
    (cpc = "done" /\ overlap < chunkSize) =>
        \A i \in DOMAIN chunks :
            i < Len(chunks) =>
                /\ Len(chunks[i].words) = chunkSize
                /\ chunks[i].end - chunks[i + 1].start = overlap
                /\ SubSeq(chunks[i].words, chunkSize - overlap + 1, chunkSize)
                      = SubSeq(chunks[i + 1].words, 1, overlap)

\* C11 amended: for 0 <= overlap < chunkSize, when no window's joined text is
\* shorter than minChunkSize characters (none is dropped by the floor), any
\* two consecutive emitted chunks share exactly overlap words, the last
\* overlap words of one being the first overlap words of the next, and only
\* the final chunk may have fewer than chunkSize words.
C11_OverlapNoDrop ==
    (cpc = "done" /\ overlap < chunkSize /\ NoWindowDropped) =>
        \A i \in DOMAIN chunks :
            i < Len(chunks) =>
                /\ Len(chunks[i].words) = chunkSize
                /\ chunks[i].end - chunks[i + 1].start = overlap
                /\ chunks[i + 1].start < chunks[i + 1].end
                /\ SubSeq(chunks[i].words, chunkSize - overlap + 1, chunkSize)
                      = SubSeq(chunks[i + 1].words, 1, overlap)

\* three chunks of two words with overlap one, the final chunk a full window
\* too, nothing dropped
C11_Witness ==
    /\ cpc = "done"
    /\ chunkSize = 2
    /\ overlap = 1
    /\ minChunkSize = 3
    /\ NoWindowDropped
    /\ Len(chunks) >= 3
    /\ chunks[1].words = <<"a", "bbb">>
    /\ chunks[2].words = <<"bbb", "a">>

\* starts of the windows the sliding window visits, for any overlap: the
\* multiples of the step up to the first window that reaches the last word
StepTaken == IF chunkSize - overlap >= 1 THEN chunkSize - overlap ELSE 1

AllWindowStarts ==
    { s \in 0..(Len(words) - 1) :
        /\ s % StepTaken = 0
        /\ s = 0 \/ s - StepTaken + chunkSize < Len(words) }

WindowWords(s) == SubSeq(words, s + 1, Min(s + chunkSize, Len(words)))

\* C12: chunkText emits a window's joined text exactly when its character
\* length is at least minChunkSize: no emitted chunk is shorter, a text
\* shorter than minChunkSize yields no chunk, and the emitted chunks are the
\* windows of the floor-free walk that reach the floor, in order, each with
\* the start and end it has when nothing is dropped.
C12_EmittedIffAtLeastFloor ==
    cpc = "done" =>
        /\ \A i \in DOMAIN chunks : JoinLength(chunks[i].words) >= minChunkSize
        /\ JoinLength(words) < minChunkSize => chunks = <<>>
        /\ \A i \in DOMAIN chunks :
              /\ chunks[i].start \in AllWindowStarts
              /\ chunks[i].end = Min(chunks[i].start + chunkSize, Len(words))
              /\ chunks[i].words = WindowWords(chunks[i].start)
        /\ \A i, j \in DOMAIN chunks : i < j => chunks[i].start < chunks[j].start
        /\ \A s \in AllWindowStarts :
              JoinLength(WindowWords(s)) >= minChunkSize =>
                  \E i \in DOMAIN chunks : chunks[i].start = s

\* a window of exactly minChunkSize characters is emitted, a shorter window
\* before it is dropped and the window after the dropped one is emitted
C12_Witness ==
    /\ cpc = "done"
    /\ chunkSize = 1
    /\ overlap = 0
    /\ minChunkSize = 3
    /\ Len(words) >= 3
    /\ words[1] = "bbb"
    /\ words[2] = "a"
    /\ words[3] = "bbb"
    /\ Len(chunks) >= 2
    /\ chunks[1].start = 0
    /\ chunks[2].start = 2

\* the windows cut so far are not empty, at most one of them ends at the last
\* word, and the loop has gone round at most once per word
WindowsWellFormed ==
    /\ \A i \in DOMAIN windows : windows[i][1] < windows[i][2]
    /\ Cardinality({i \in DOMAIN windows : windows[i][2] = Len(words)}) <= 1
    /\ Len(windows) <= Len(words)

\* the call has returned; for a text with words its last window, and no
\* other, ends at the last word
ReturnedAtLastWord ==
    /\ cpc = "done"
    /\ Len(words) > 0 =>
          /\ Len(windows) >= 1
          /\ windows[Len(windows)][2] = Len(words)
          /\ Cardinality({i \in DOMAIN windows : windows[i][2] = Len(words)}) = 1

\* C13: chunkText terminates for every text, every chunkSize > 0 and every
\* overlap, overlap >= chunkSize included (the step is then 1 word); the loop
\* stops at the first window whose right edge reaches the end of the text, so
\* exactly one window ends at the last word and no window is empty.
C13_Terminates ==
    /\ [](WindowsWellFormed)
    /\ <>(ReturnedAtLastWord)
    /\ [](cpc = "done" => ReturnedAtLastWord)

\* a call with overlap >= chunkSize has returned after five windows, each
\* one word further
C13_Witness ==
    /\ cpc = "done"
    /\ overlap >= chunkSize
    /\ Len(windows) = 5
    /\ \A i \in DOMAIN windows : windows[i][1] = i - 1

\* C14 as claimed: chunkText called with overlap >= chunkSize produces an
\* error and no chunks.
C14_OverlapRejected ==
    (cpc # "ready" /\ overlap >= chunkSize) =>
        /\ cpc = "error"
        /\ chunks = <<>>

\* C14 amended: chunkText called with overlap >= chunkSize raises no error;
\* it returns the windows of chunkSize words that start at word 0, 1, 2, ...
\* up to the first one that reaches the last word, less those whose joined
\* text is shorter than minChunkSize.
C14_OverlapClamped ==
    /\ cpc \in {"ready", "done"}
    /\ (cpc = "done" /\ overlap >= chunkSize) =>
          /\ \A i \in DOMAIN chunks :
                /\ chunks[i].start \in 0..Max(0, Len(words) - chunkSize)
                /\ chunks[i].end = Min(chunks[i].start + chunkSize, Len(words))
                /\ chunks[i].words = WindowWords(chunks[i].start)
          /\ \A s \in 0..Max(0, Len(words) - chunkSize) :
                (Len(words) > 0 /\ JoinLength(WindowWords(s)) >= minChunkSize) =>
                    \E i \in DOMAIN chunks : chunks[i].start = s
          /\ \A i, j \in DOMAIN chunks : i < j => chunks[i].start < chunks[j].start

\* five words with chunkSize 2 and overlap 3: the four windows [0,2), [1,3),
\* [2,4), [3,5) are returned
C14_Witness ==
    /\ cpc = "done"
    /\ chunkSize = 2
    /\ overlap = 3
    /\ Len(words) = 5
    /\ Len(chunks) = 4
    /\ \A i \in DOMAIN chunks : ChunkSpan(chunks[i]) = <<i - 1, i + 1>>

MessagesDone == mpc \in {"done", "again"}

\* positions in allChunks of the chunks that carry message uid u
ChunksOf(u) == {i \in DOMAIN allChunks : allChunks[i].messageUid = u}

\* C22: chunkByMessages chunks each message independently: every emitted
\* chunk consists of words of exactly one message, carries that message's uid,
\* has chunkIndex equal to its zero-based position among that message's
\* emitted chunks and totalChunks equal to the number of chunks emitted for
\* that message, so 0 <= chunkIndex < totalChunks.
C22_ChunksOfOneMessage ==
    MessagesDone =>
        \A i \in DOMAIN allChunks :
            LET c == allChunks[i]
            IN  /\ \E m \in DOMAIN messages :
                      /\ messages[m].uid = c.messageUid
                      /\ c.start < c.end
                      /\ c.end <= Len(messages[m].words)
                      /\ c.words = SubSeq(messages[m].words, c.start + 1, c.end)
                      /\ Len(c.words) <= chunkSize
                /\ c.ticketUid = ticketUid
                /\ c.chunkIndex = Cardinality({j \in ChunksOf(c.messageUid) : j < i})
                /\ c.totalChunks = Cardinality(ChunksOf(c.messageUid))
                /\ 0 <= c.chunkIndex
                /\ c.chunkIndex < c.totalChunks

\* two messages of two words, windows of one word, floor of three characters:
\* each message gives one chunk, its second word, with chunkIndex 0 of 1
C22_Witness ==
    /\ mpc = "done"
    /\ Len(messages) = 2
    /\ messages[1].words = <<"a", "bbb">>
    /\ messages[2].words = <<"a", "bbb">>
    /\ chunkSize = 1
    /\ minChunkSize = 3
    /\ Len(allChunks) = 2
    /\ allChunks[1].messageUid = "m1"
    /\ allChunks[2].messageUid = "m1_chunk_0"
    /\ allChunks[2].chunkIndex = 0
    /\ allChunks[2].totalChunks = 1
    /\ allChunks[2].start = 1

BothScored == spc = "batched" /\ Len(chunkScores) = Len(candidates)

SameScoresSameResult ==
    /\ chunkScores = batchScores
    /\ rerankWithOpenAI(candidates, chunkScores, topK)
         = rerankWithOpenAI(candidates, batchScores, topK)

\* C26: scoring the candidates one by one with rerankChunk yields the same
\* scores, and the same reranked result, as scoring them in one batch with
\* rerankChunks, whatever the scorer does: replies, fails, or replies with
\* something that cannot be parsed.
C26_SequentialEqualsBatch == BothScored => SameScoresSameResult

\* the scoring call throws for two candidates: 0 for each from rerankChunk,
\* 0.5 for each from rerankChunks
C26_Witness ==
    /\ BothScored
    /\ outcome.failed
    /\ Len(candidates) = 2
    /\ chunkScores = <<0, 0>>
    /\ batchScores = <<DefaultRerankScore, DefaultRerankScore>>

\* the two agree when the call returns and every entry is a JSON value
ParsableRepliesAgree ==
    (BothScored /\ ~outcome.failed /\ ~JSONParseThrows(outcome.replies))
        => SameScoresSameResult

(***************************************************************************)
(* Properties of the chat session                                          *)
(***************************************************************************)
QueryIds(h) == {h[i].query : i \in DOMAIN h}

\* C24: a query for which retrieval yields no passage at or above the
\* minimum score does not fail: processQuery returns a response with an empty
\* source list, the reranker and the generation step not having been called
\* and the history not having been touched.
C24_EmptyRetrievalAnswered ==
    \A q \in DOMAIN queries :
        /\ queries[q].pos \in {"reranking", "generating"} => queries[q].rerankCalls = 1
        /\ (queries[q].pos = "answered" /\ queries[q].sources = <<>>) =>
              /\ queries[q].rerankCalls = 0
              /\ queries[q].generationCalls = 0
              /\ q \notin QueryIds(history)
              /\ q \notin QueryIds(pushed)
        /\ (queries[q].pos = "answered" /\ queries[q].sources # <<>>) =>
              /\ queries[q].rerankCalls = 1
              /\ queries[q].generationCalls = 1

\* the first query found nothing and was answered, the second found a chunk
\* and was answered from it
C24_Witness ==
    /\ queries[1].pos = "answered"
    /\ queries[1].sources = <<>>
    /\ queries[1].generationCalls = 0
    /\ queries[2].pos = "answered"
    /\ queries[2].sources = <<"p1">>
    /\ Len(history) = 3

\* h is the system message followed by complete exchanges: the user message
\* of a query and right after it the assistant message of that query
Exchanges(h) ==
    /\ Len(h) >= 1
    /\ h[1] = SystemMessage
    /\ Len(h) % 2 = 1
    /\ \A k \in 1..((Len(h) - 1) \div 2) :
          /\ h[2 * k].role = "user"
          /\ h[2 * k + 1].role = "assistant"
          /\ h[2 * k].query = h[2 * k + 1].query

\* the messages after the system message are the most recent ones pushed,
\* in the order they were pushed
MostRecentPushed(h, all) ==
    /\ Len(h) - 1 <= Len(all)
    /\ SubSeq(h, 2, Len(h)) = SubSeq(all, Len(all) - Len(h) + 2, Len(all))

\* the step returns the response of some query
Completes == \E q \in DOMAIN queries :
                queries[q].pos # "answered" /\ queries'[q].pos = "answered"

\* the step returns the response of a query that was answered by the
\* generation step
Generated == \E q \in DOMAIN queries :
                /\ queries[q].pos = "generating"
                /\ queries'[q].pos = "answered"

\* after a processQuery that ran the generation step: at most 21 messages,
\* the system message first, then the most recent messages in their order
PrunedToLimit ==
    [][Generated =>
          /\ Len(history') <= HistoryLimit
          /\ history'[1] = SystemMessage
          /\ MostRecentPushed(history', pushed')
      ]_vars

\* C27: after every completed processQuery the history holds at most 21
\* messages, its first message is the system message, and the others are the
\* most recent exchanges (at most 10 user/assistant pairs) in their original
\* order, the oldest having been evicted first.
C27_HistoryOfRecentExchanges ==
    [][Completes =>
          /\ Len(history') <= HistoryLimit
          /\ Exchanges(history')
          /\ MostRecentPushed(history', pushed')
      ]_vars

\* the generation of the first query failed and the second query completed:
\* the history is the system message, the first question and the second
\* exchange
C27_Witness ==
    /\ queries[1].pos = "failed"
    /\ queries[2].pos = "answered"
    /\ history = <<SystemMessage, [role |-> "user", query |-> 1],
                   [role |-> "user", query |-> 2],
                   [role |-> "assistant", query |-> 2]>>

NoQueryInFlight == \A q \in DOMAIN queries : ~InFlight(q)

\* C28: whenever no query is in flight the history is the system message
\* followed by complete user/assistant pairs: a failed query has left no
\* message in it, and the messages of queries that overlapped in time are
\* not interleaved.
C28_HistoryOfCompletePairs ==
    NoQueryInFlight =>
        /\ Exchanges(history)
        /\ \A q \in DOMAIN queries :
              queries[q].pos = "failed" => q \notin QueryIds(history)

\* two queries overlapped and both were answered: the history holds both
\* questions and then both answers
C28_Witness ==
    /\ NoQueryInFlight
    /\ resets = 0
    /\ queries[1].pos = "answered"
    /\ queries[2].pos = "answered"
    /\ history = <<SystemMessage, [role |-> "user", query |-> 1],
                   [role |-> "user", query |-> 2],
                   [role |-> "assistant", query |-> 1],
                   [role |-> "assistant", query |-> 2]>>

\* C29: the tokensUsed of a query's response is the sum of the tokens its
\* own embedding, reranking and generation calls added to the cost tracker,
\* also when another query or a reset was handled while it awaited a call.
C29_TokensUsedOwnTokens ==
    \A q \in DOMAIN queries :
        queries[q].pos = "answered" => queries[q].tokensUsed = queries[q].ownTokens

\* a reset was handled while the first query awaited its generation call:
\* its own calls added 7 tokens and its response reports fewer than 0
C29_Witness ==
    /\ queries[1].pos = "answered"
    /\ queries[1].ownTokens = 7
    /\ queries[1].tokensUsed < 0
    /\ resets = 1

(***************************************************************************)
(* Properties of embedDirectory                                            *)
(***************************************************************************)
\* number of upsertBatch calls of the log that held chunk c (counted from 1)
Upserts(log, c) ==
    Cardinality({b \in DOMAIN log : log[b][1] < c /\ c <= log[b][1] + log[b][2]})

\* the step leaves a file all of whose steps returned: it has chunks, and
\* each of them was in exactly one upsertBatch call that returned
CompletesFile ==
    /\ epc \in {"extracted", "embedding", "upserting"}
    /\ epc' = "file"
    /\ chunksLength' > 0
    /\ \A c \in 1..chunksLength' : Upserts(upsertLog', c) = 1

\* C30: in embedDirectory a failure while one ticket file is processed does
\* not stop the run: when the run ends the processing of every file found
\* has begun; processedFiles grows by one exactly on the steps that complete
\* a file, whose chunks have then each been upserted exactly once; and no
\* upsertBatch call holds more than 50 chunks.
C30_FailureKeepsRunGoing ==
    [][/\ epc' = "complete" => attempted' = 1..fileCount
       /\ processedFiles' = processedFiles + (IF CompletesFile THEN 1 ELSE 0)
       /\ \A b \in DOMAIN upsertLog' :
             upsertLog'[b][2] >= 1 /\ upsertLog'[b][2] <= EmbeddingBatchSize
      ]_vars

\* of eleven files two completed, one with 2 chunks and one with 51, one
\* failed after its first batch of 50, the last one completed
C30_Witness ==
    /\ epc = "complete"
    /\ fileCount = MaxFiles
    /\ attempted = 1..MaxFiles
    /\ processedFiles = 2
    /\ totalChunks = 2 + (EmbeddingBatchSize + 1) + EmbeddingBatchSize
    /\ upsertLog = <<<<0, EmbeddingBatchSize>>, <<EmbeddingBatchSize, 1>>>>

(***************************************************************************)
(* Properties of hybridSearch and retrieveRelevantChunks                   *)
(***************************************************************************)
Fused == pc \in {"fused", "done"}

\* the score list s holds for passage id
ScoreIn(s, id) == s[IndexOf(s, id)].score

\* position of passage ids in the ascending order of ids
IdRank(id) == CASE id = "p1" -> 1 [] id = "p2" -> 2 [] id = "p3" -> 3

\* C1: hybridSearch gives a passage found by both searches the score
\* (1.2 x lexicalScore + vectorScore) / 2, one found only lexically
\* 1.2 x lexicalScore, one found only by the vector search its vectorScore.
C1_FusedScore ==
    Fused =>
        \A id \in Ids(keywordResults) \cup Ids(semanticResults) :
            /\ id \in Ids(hybridResults)
            /\ (id \in Ids(keywordResults) /\ id \in Ids(semanticResults)) =>
                  20 * ScoreIn(hybridResults, id) =
                      12 * ScoreIn(keywordResults, id) + 10 * ScoreIn(semanticResults, id)
            /\ (id \in Ids(keywordResults) /\ id \notin Ids(semanticResults)) =>
                  10 * ScoreIn(hybridResults, id) = 12 * ScoreIn(keywordResults, id)
            /\ (id \notin Ids(keywordResults) /\ id \in Ids(semanticResults)) =>
                  ScoreIn(hybridResults, id) = ScoreIn(semanticResults, id)

\* the example of the claim: lexical p1 = 0.6, vector p1 = 0.8 and p2 = 0.7
C1_Witness ==
    /\ pc = "fused"
    /\ keywordResults = <<[id |-> "p1", score |-> 60]>>
    /\ semanticResults = <<[id |-> "p1", score |-> 80], [id |-> "p2", score |-> 70]>>
    /\ hybridResults = <<[id |-> "p1", score |-> 76], [id |-> "p2", score |-> 70]>>

InsertionRank(id) ==
    IF id \in Ids(keywordResults)
    THEN IndexOf(keywordResults, id)
    ELSE Len(keywordResults) + IndexOf(semanticResults, id)

C7_NoFloorBeforeFusion ==
    Fused =>
        \A i \in DOMAIN indexResults :
            LET id == indexResults[i].id IN
            /\ id \in Ids(hybridResults)
            /\ id \in Ids(keywordResults) =>
                  20 * ScoreIn(hybridResults, id) =
                      12 * ScoreIn(keywordResults, id) + 10 * indexResults[i].score
            /\ id \notin Ids(keywordResults) =>
                  ScoreIn(hybridResults, id) = indexResults[i].score

\* C7 amended: the vector search has the default score floor 0.5; only the
\* index candidates with similarity >= 0.5 take part in fusion, one below 0.5
\* that also matches lexically carries its boosted lexical score alone, one
\* below 0.5 without a lexical match is no candidate; the minimum-score
\* floor is applied once more after fusion.
C7_FloorBeforeFusion ==
    Fused =>
        /\ \A i \in DOMAIN indexResults :
              LET id == indexResults[i].id
                  v == indexResults[i].score
              IN  /\ v >= 50 => id \in Ids(semanticResults)
                  /\ (v >= 50 /\ id \in Ids(keywordResults)) =>
                        20 * ScoreIn(hybridResults, id) =
                            12 * ScoreIn(keywordResults, id) + 10 * v
                  /\ (v < 50 /\ id \in Ids(keywordResults)) =>
                        10 * ScoreIn(hybridResults, id) = 12 * ScoreIn(keywordResults, id)
                  /\ (v < 50 /\ id \notin Ids(keywordResults)) =>
                        id \notin Ids(hybridResults)
        /\ pc = "done" => \A i \in DOMAIN filtered : filtered[i].score >= minSimilarityScore

\* a passage with vector similarity 0.3 that matches lexically has been fused
C7_Witness ==
    /\ pc = "done"
    /\ \E i \in DOMAIN indexResults :
          /\ indexResults[i].score < 50
          /\ indexResults[i].id \in Ids(keywordResults)
          /\ indexResults[i].id \in Ids(filtered)

\* C8 as claimed: every score produced by fusion and returned by
\* retrieveRelevantChunks is in [0, 1].
C8_ScoreAtMostOne ==
    /\ Fused => \A i \in DOMAIN hybridResults :
                    hybridResults[i].score >= 0 /\ hybridResults[i].score <= 100
    /\ pc = "done" => \A i \in DOMAIN filtered :
                    filtered[i].score >= 0 /\ filtered[i].score <= 100

\* C8 amended: every score produced by fusion and returned by
\* retrieveRelevantChunks is in [0, 1.2], and in [0, 1] for a passage the
\* lexical search did not return.
C8_ScoreAtMostBoost ==
    /\ Fused => \A i \in DOMAIN hybridResults :
                    /\ hybridResults[i].score >= 0
                    /\ hybridResults[i].score <= 120
                    /\ hybridResults[i].id \notin Ids(keywordResults) =>
                          hybridResults[i].score <= 100
    /\ pc = "done" => \A i \in DOMAIN filtered :
                    filtered[i].score >= 0 /\ filtered[i].score <= 120

\* a lexical-only candidate of lexical score 1.0 is returned with score 1.2,
\* next to a candidate found by both searches
C8_Witness ==
    /\ pc = "done"
    /\ \E i \in DOMAIN filtered : filtered[i].score = 120
    /\ \E i \in DOMAIN filtered :
          filtered[i].id \in Ids(keywordResults) \cap Ids(semanticResults)

\* C9: in the output of hybridSearch each Passage id appears exactly once and
\* the output ids are the union of the lexical and the vector results' ids.
C9_DeduplicatedUnion ==
    Fused =>
        /\ \A i, j \in DOMAIN hybridResults :
              hybridResults[i].id = hybridResults[j].id => i = j
        /\ \A id \in PassageIds :
              (\E i \in DOMAIN hybridResults : hybridResults[i].id = id)
                <=> \/ \E i \in DOMAIN keywordResults : keywordResults[i].id = id
                    \/ \E i \in DOMAIN semanticResults : semanticResults[i].id = id

\* one passage found by both searches, one by each search alone
C9_Witness ==
    /\ pc = "fused"
    /\ Ids(keywordResults) \cap Ids(semanticResults) # {}
    /\ Ids(keywordResults) \ Ids(semanticResults) # {}
    /\ Ids(semanticResults) \ Ids(keywordResults) # {}
    /\ Len(hybridResults) = 3

\* C10: retrieveRelevantChunks returns exactly the fused candidates with
\* fused score >= minSimilarityScore, in the order fusion produced them.
C10_FilterAfterFusion ==
    pc = "done" =>
        /\ \A i \in DOMAIN filtered :
              /\ filtered[i].score >= minSimilarityScore
              /\ \E j \in DOMAIN hybridResults : hybridResults[j] = filtered[i]
        /\ \A j \in DOMAIN hybridResults :
              hybridResults[j].score >= minSimilarityScore =>
                  \E i \in DOMAIN filtered : filtered[i] = hybridResults[j]
        /\ \A i, j \in DOMAIN filtered :
              i < j => IndexOf(hybridResults, filtered[i].id)
                         < IndexOf(hybridResults, filtered[j].id)

\* a candidate exactly at the floor is kept, one below it is dropped
C10_Witness ==
    /\ pc = "done"
    /\ \E i \in DOMAIN filtered : filtered[i].score = minSimilarityScore
    /\ \E j \in DOMAIN hybridResults : hybridResults[j].score < minSimilarityScore
    /\ Len(filtered) >= 2

====
